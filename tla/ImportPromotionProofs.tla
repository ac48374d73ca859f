------------------------ MODULE ImportPromotionProofs ------------------------
(***************************************************************************)
(* Theorems about ImportPromotion, for any number of workers, candidates,  *)
(* queues, edits and faults.                                               *)
(*   Under every fault (ReviewInv) what was promoted is marked PROCESSED,  *)
(* so that a second writer's comparison fails; what a worker holds it read *)
(* as not approved, so that an approval changes the version it compares;   *)
(* a cancelled run has no candidate, unless a checkpoint came late.  These *)
(* give the promises that hold always, and with them the refinement.       *)
(*   While no lease of a queue is overrun and none is dead-lettered        *)
(* (LeaseHeld), a queue at work has one worker; while, moreover, nothing   *)
(* is staged twice (Fenced), its records are assigned to it, and what the  *)
(* worker has passed is promoted or reported.                              *)
(***************************************************************************)
EXTENDS ImportPromotionReview, TLAPS

USE DEF review

\* A worker that is not idle has a queue; it holds a candidate only while it
\* is about to write it; it starts on no queue that it saw over.
QueueHeld ==
    \A w \in Workers :
      /\ worker[w].step /= "idle" => worker[w].queue \in Queues
      /\ worker[w].step /= "write" => worker[w].hand = {}
      /\ worker[w].step = "begin" => worker[w].base /= "COMPLETED"
      /\ worker[w].base /= "deleted"

Typed == TypeOK /\ QueueHeld

\* A worker with nothing in hand.
LEMMA FreeIsWorker == Free \in Worker
BY QueuesAssumption DEF Free, Worker, Unread, QueueStatuses

\* A queue that was never submitted.
LEMMA NoQueueIsQueue == NoQueue \in Queue
BY DEF NoQueue, Queue, Targets, QueueStatuses

\* A run that has just been created is well typed.
LEMMA InitTyped == Init => Typed
<1> SUFFICES ASSUME Init PROVE Typed
  OBVIOUS
<1>1. cand \in [Cands -> Row]
  BY QueuesAssumption DEF Init, Row
<1>2. queue \in [Queues -> Queue]
  BY NoQueueIsQueue DEF Init
<1>3. entity \in [Cands -> Entity]
  BY EntityAssumption DEF Init, Entity
<1>4. worker \in [Workers -> Worker]
  BY FreeIsWorker DEF Init
<1>5. promoted \in [Cands -> Seq(Targets)]
  BY DEF Init
<1>6. edits \in 0 .. MaxEdits /\ faults \in [FaultKinds -> Nat]
  BY EditsAssumption DEF Init
<1> QED
  BY <1>1, <1>2, <1>3, <1>4, <1>5, <1>6
     DEF Init, Typed, TypeOK, QueueHeld, Free

\* A fault is counted.
LEMMA FaultTyped ==
    ASSUME TypeOK, NEW k \in FaultKinds, Fault(k)
    PROVE  faults' \in [FaultKinds -> Nat]
BY DEF TypeOK, Fault

\* What w holds is the new record; the others hold what they held.
Holds(w, record) ==
    /\ worker' \in [Workers -> Worker]
    /\ worker'[w] = record
    /\ \A v \in Workers \ {w} : worker'[v] = worker[v]

\* A step of one worker leaves what the others hold.
LEMMA Sets ==
    ASSUME TypeOK, NEW w \in Workers, NEW record \in Worker, Set(w, record)
    PROVE  Holds(w, record)
BY DEF TypeOK, Set, Holds

\* A worker that leaves its queue has nothing in hand.
LEMMA Releases ==
    ASSUME TypeOK, NEW w \in Workers, Release(w)
    PROVE  /\ Holds(w, Free) /\ Free.step = "idle" /\ Free.hand = {}
           /\ Free.base = "none"
BY FreeIsWorker, Sets DEF Release, Free

\* What an update of some fields leaves a queue, a row or a worker to be.

\* A queue that is claimed, released, finished or deleted.
LEMMA QueueUpdates ==
    ASSUME NEW Q \in Queue, NEW s \in QueueStatuses, NEW b \in BOOLEAN,
           NEW E \in SUBSET Cands, NEW n \in Nat
    PROVE  /\ [Q EXCEPT !.status = s] \in Queue
           /\ [Q EXCEPT !.leased = b] \in Queue
           /\ [Q EXCEPT !.status = s, !.leased = b] \in Queue
           /\ [Q EXCEPT !.status = s, !.leased = b, !.finishes = n] \in Queue
           /\ [Q EXCEPT !.status = s, !.errors = E, !.finishes = n] \in Queue
BY DEF Queue, QueueStatuses

\* A confirmed candidate that is submitted or released.
LEMMA RowUpdates ==
    ASSUME NEW c \in Row, NEW q \in 0 .. MaxQueues
    PROVE  [c EXCEPT !.state = "CONFIRMED", !.queue = q] \in Row
BY DEF Row

\* A worker that has looked at a candidate it will write.
LEMMA WorkerTakes ==
    ASSUME NEW r \in Worker, NEW T \in SUBSET Cands, NEW H \in SUBSET Cands,
           NEW n \in Nat, NEW K \in [Cands -> Entity \cup {Unread}]
    PROVE  [r EXCEPT !.step = "write", !.hand = H, !.todo = T,
                     !.edition = n, !.known = K] \in Worker
BY DEF Worker

\* A worker that has looked at a candidate it will not write.
LEMMA WorkerPasses ==
    ASSUME NEW r \in Worker, NEW T \in SUBSET Cands, NEW E \in SUBSET Cands
    PROVE  [r EXCEPT !.todo = T, !.errors = E] \in Worker
BY DEF Worker

\* A worker whose write was refused.
LEMMA WorkerRefuses ==
    ASSUME NEW r \in Worker, NEW E \in SUBSET Cands
    PROVE  [r EXCEPT !.step = "next", !.hand = {}, !.errors = E] \in Worker
BY DEF Worker

\* A write of one queue leaves the others.
LEMMA QueueChanges ==
    ASSUME TypeOK, NEW q \in Queues, NEW Q \in Queue,
           queue' = [queue EXCEPT ![q] = Q]
    PROVE  /\ queue' \in [Queues -> Queue]
           /\ queue'[q] = Q
           /\ \A p \in Queues \ {q} : queue'[p] = queue[p]
BY DEF TypeOK

\* A worker that is not idle works on a queue that exists.
LEMMA WorkerQueue ==
    ASSUME Typed, NEW w \in Workers, worker[w].step /= "idle"
    PROVE  worker[w].queue \in Queues /\ queue[worker[w].queue] \in Queue
BY DEF Typed, TypeOK, QueueHeld

\* What a worker takes an entity to be, it has read or reads now.
LEMMA KnownIsEntity ==
    ASSUME TypeOK, NEW w \in Workers, NEW c \in Cands
    PROVE  Known(w, c) \in Entity
BY DEF TypeOK, Known, Worker

\* What the first flush of a worker leaves: its own copy, and those of
\* others, which differ in their base at most.
LEMMA BeginChanges ==
    ASSUME Typed, NEW w \in Workers, Begin(w)
    PROVE  LET q      == worker[w].queue
               status == IF worker[w].base = "PROCESSING"
                         THEN queue[q].status ELSE "PROCESSING" IN
           /\ q \in Queues /\ status \in QueueStatuses
           /\ status /= "deleted"
           /\ queue' = [queue EXCEPT ![q] = [queue[q] EXCEPT !.status = status]]
           /\ worker' \in [Workers -> Worker]
           /\ worker'[w] = [worker[w] EXCEPT !.step = "next", !.base = status,
                                             !.finishes = queue[q].finishes]
           /\ \A v \in Workers \ {w} :
                 \/ worker'[v] = worker[v]
                 \/ /\ worker[v].queue = q /\ worker[v].step = "begin"
                    /\ worker'[v] = [worker[v] EXCEPT !.base = "stale"]
<1> DEFINE q      == worker[w].queue
           status == IF worker[w].base = "PROCESSING"
                     THEN queue[q].status ELSE "PROCESSING"
           mine   == [worker[w] EXCEPT !.step = "next", !.base = status,
                                       !.finishes = queue[q].finishes]
<1>1. q \in Queues /\ queue[q] \in Queue
  BY WorkerQueue DEF Begin
<1>2. status \in QueueStatuses /\ queue[q].finishes \in Nat
  BY <1>1 DEF Queue, QueueStatuses
<1>3. status /= "deleted"
  BY DEF Begin, BeginAccepted
<1>4. queue' = [queue EXCEPT ![q].status = status]
  BY DEF Begin
<1>5. worker' = [v \in Workers |->
          IF v = w THEN mine
          ELSE IF worker[v].queue = q /\ worker[v].step = "begin"
               THEN [worker[v] EXCEPT !.base = "stale"] ELSE worker[v]]
  BY DEF Begin
<1> HIDE DEF status
<1>6. \A v \in Workers : worker[v] \in Worker
  BY DEF Typed, TypeOK
<1>7. mine \in Worker
  BY <1>2, <1>6 DEF Worker
<1>8. \A v \in Workers : [worker[v] EXCEPT !.base = "stale"] \in Worker
  BY <1>6 DEF Worker
<1> HIDE DEF mine
<1>9. worker' \in [Workers -> Worker]
  BY <1>5, <1>6, <1>7, <1>8
<1>10. queue' = [queue EXCEPT ![q] = [queue[q] EXCEPT !.status = status]]
  BY <1>1, <1>4 DEF Typed, TypeOK
<1>11. worker'[w] = mine
  BY <1>5
<1>12. \A v \in Workers \ {w} :
         \/ worker'[v] = worker[v]
         \/ /\ worker[v].queue = q /\ worker[v].step = "begin"
            /\ worker'[v] = [worker[v] EXCEPT !.base = "stale"]
  BY <1>5
<1> QED
  BY <1>1, <1>2, <1>3, <1>9, <1>10, <1>11, <1>12 DEF status, mine

\* Sets without the type of the record.
LEMMA SetsOne ==
    ASSUME TypeOK, NEW w \in Workers, NEW record, Set(w, record)
    PROVE  /\ worker'[w] = record
           /\ \A v \in Workers \ {w} : worker'[v] = worker[v]
BY DEF TypeOK, Set

\* A worker keeps its base until it leaves the queue.
LEMMA BaseKept ==
    ASSUME Typed, NEW w \in Workers, NEW c \in Cands,
           Look(w, c) \/ Promote(w, c) \/ RefuseRecord(w, c)
    PROVE  worker'[w].base = worker[w].base
<1>1. worker[w] \in Worker
  BY DEF Typed, TypeOK
<1>2. ASSUME Look(w, c) PROVE worker'[w].base = worker[w].base
  <2>1. CASE Promotable(w, c)
    <3> DEFINE new == [worker[w] EXCEPT !.step = "write", !.hand = {c},
                         !.todo = worker[w].todo \ {c},
                         !.edition = cand[c].edition,
                         !.known = [d \in Cands |-> Known(w, d)]]
    <3>1. Set(w, new)
      BY <1>2, <2>1 DEF Look
    <3>2. new.base = worker[w].base
      BY <1>1 DEF Worker
    <3> QED
      BY <3>1, <3>2, SetsOne DEF Typed
  <2>2. CASE ~Promotable(w, c)
    <3> DEFINE E   == IF cand[c].state = "PROCESSED" THEN worker[w].errors
                      ELSE worker[w].errors \cup {c}
               new == [worker[w] EXCEPT !.todo = worker[w].todo \ {c},
                                        !.errors = E]
    <3>1. Set(w, new)
      BY <1>2, <2>2 DEF Look
    <3> HIDE DEF E
    <3>2. new.base = worker[w].base
      BY <1>1 DEF Worker
    <3> QED
      BY <3>1, <3>2, SetsOne DEF Typed
  <2> QED
    BY <2>1, <2>2
<1>3. ASSUME Promote(w, c) PROVE worker'[w].base = worker[w].base
  <2> DEFINE new == [worker[w] EXCEPT !.step = "next", !.hand = {},
                                      !.known[c] = entity'[c]]
  <2>1. Set(w, new)
    BY <1>3 DEF Promote
  <2>2. new.base = worker[w].base
    BY <1>1 DEF Worker
  <2> QED
    BY <2>1, <2>2, SetsOne DEF Typed
<1>4. ASSUME RefuseRecord(w, c) PROVE worker'[w].base = worker[w].base
  <2> DEFINE E   == worker[w].errors \cup {c}
             new == [worker[w] EXCEPT !.step = "next", !.hand = {},
                                      !.errors = E]
  <2>1. Set(w, new)
    BY <1>4 DEF RefuseRecord
  <2> HIDE DEF E
  <2>2. new.base = worker[w].base
    BY <1>1 DEF Worker
  <2> QED
    BY <2>1, <2>2, SetsOne DEF Typed
<1> QED
  BY <1>2, <1>3, <1>4

\* No step of preprocessing, a reviewer or a worker leaves the types.
LEMMA NextTyped == Typed /\ [Next]_vars => Typed'
<1> SUFFICES ASSUME Typed, [Next]_vars PROVE Typed'
  OBVIOUS
<1> USE QueuesAssumption DEF Typed, TypeOK, QueueHeld
<1>1. ASSUME NEW c \in Cands, StageNew(c) PROVE Typed'
  BY <1>1 DEF StageNew, Row
<1>2. ASSUME NEW c \in Cands, Restage(c) PROVE Typed'
  <2>1. cand' \in [Cands -> Row] /\ promoted' \in [Cands -> Seq(Targets)]
    BY <1>2 DEF Restage, StagedAgain, Row, Staged
  <2> QED
    BY <1>2, <2>1 DEF Restage
<1>3. CASE Preprocessed
  BY <1>3 DEF Preprocessed
<1>4. CASE StopPreprocessing
  BY <1>4, FaultTyped DEF StopPreprocessing, FaultKinds
<1>5. CASE Resume
  BY <1>5 DEF Resume
<1>6. ASSUME NEW c \in Cands, Confirm(c) PROVE Typed'
  BY <1>6 DEF Confirm, Row
<1>7. ASSUME NEW c \in Cands, Reject(c) PROVE Typed'
  BY <1>7 DEF Reject, Row
<1>8. ASSUME NEW c \in Cands, ReviewEntity(c) PROVE Typed'
  <2>1. entity' \in [Cands -> Entity]
    BY <1>8 DEF ReviewEntity, Entity
  <2>2. edits' \in 0 .. MaxEdits
    BY <1>8, EditsAssumption DEF ReviewEntity
  <2> QED
    BY <1>8, <2>1, <2>2 DEF ReviewEntity
<1>9. ASSUME NEW q \in Queues, NEW S \in SUBSET Cands, NEW t \in Targets,
             Submit(q, S, t)
      PROVE  Typed'
  <2>1. [NoQueue EXCEPT !.status = "QUEUED", !.records = S, !.target = t]
           \in Queue
    BY NoQueueIsQueue DEF NoQueue, Queue, QueueStatuses
  <2>2. queue' \in [Queues -> Queue]
    BY <1>9, <2>1 DEF Submit
  <2>3. cand' \in [Cands -> Row]
    <3>1. \A c \in S : [cand[c] EXCEPT !.state = "CONFIRMED", !.queue = q]
                          \in Row
      <4>1. q \in 0 .. MaxQueues /\ \A c \in S : cand[c] \in Row
        BY DEF Queues
      <4> QED
        BY <4>1, RowUpdates
    <3> QED
      BY <1>9, <3>1 DEF Submit
  <2> QED
    BY <1>9, <2>2, <2>3 DEF Submit
<1>10. CASE Finalize
  <2>1. [NoQueue EXCEPT !.status = "deleted"] \in Queue
    BY NoQueueIsQueue DEF NoQueue, Queue, QueueStatuses
  <2>2. queue' \in [Queues -> Queue]
    BY <1>10, <2>1 DEF Finalize
  <2>3. cand' \in [Cands -> Row]
    BY <1>10 DEF Finalize, Discarded, Row
  <2> QED
    BY <1>10, <2>2, <2>3 DEF Finalize
<1>11. CASE Cancel
  BY <1>11 DEF Cancel, Discarded, Row
<1>12. ASSUME NEW w \in Workers, Start(w) PROVE Typed'
  <2> DEFINE q == worker[w].queue
  <2> q \in Queues /\ queue[q] \in Queue
    BY <1>12, WorkerQueue DEF Start
  <2>1. CASE queue[q].status \in {"deleted", "COMPLETED"}
    BY <1>12, <2>1, Releases DEF Start, Holds
  <2>2. CASE queue[q].status \notin {"deleted", "COMPLETED"}
    <3> DEFINE new == [Free EXCEPT !.step = "begin", !.queue = q,
                                   !.base = queue[q].status,
                                   !.todo = queue[q].records]
    <3>1. new \in Worker
      BY FreeIsWorker DEF Worker, Queue, Free, Queues
    <3>2. Holds(w, new)
      BY <1>12, <2>2, <3>1, Sets DEF Start
    <3>3. /\ new.queue \in Queues /\ new.hand = {}
          /\ new.base /= "COMPLETED" /\ new.base /= "deleted"
      BY <2>2 DEF Free
    <3> HIDE DEF new
    <3> QED
      BY <1>12, <3>2, <3>3 DEF Start, Holds
  <2> QED
    BY <2>1, <2>2
<1>13. ASSUME NEW w \in Workers, NEW c \in Cands, Look(w, c) PROVE Typed'
  <2>1. worker[w] \in Worker /\ worker[w].queue \in Queues /\ c \in worker[w].todo
    BY <1>13 DEF Look
  <2>2. CASE Promotable(w, c)
    <3> DEFINE new == [worker[w] EXCEPT !.step = "write", !.hand = {c},
                         !.todo = worker[w].todo \ {c}, !.edition = cand[c].edition,
                         !.known = [d \in Cands |-> Known(w, d)]]
    <3>1. cand[c].edition \in Nat
      BY DEF Row
    <3>2. [d \in Cands |-> Known(w, d)] \in [Cands -> Entity \cup {Unread}]
      BY KnownIsEntity
    <3>3. new \in Worker /\ new.queue \in Queues /\ new.step = "write"
      <4>1. new \in Worker
        <5>1. worker[w].todo \ {c} \in SUBSET Cands /\ {c} \in SUBSET Cands
          BY <2>1 DEF Worker
        <5> QED
          BY <2>1, <3>1, <3>2, <5>1, WorkerTakes
      <4>2. new.queue = worker[w].queue /\ new.step = "write"
        BY <2>1 DEF Worker
      <4> QED
        BY <2>1, <4>1, <4>2
    <3>4. Holds(w, new)
      BY <1>13, <2>2, <3>3, Sets DEF Look
    <3> HIDE DEF new
    <3> QED
      BY <1>13, <3>3, <3>4, BaseKept DEF Look, Holds
  <2>3. CASE ~Promotable(w, c)
    <3> DEFINE new == [worker[w] EXCEPT !.todo = worker[w].todo \ {c},
                         !.errors = IF cand[c].state = "PROCESSED" THEN worker[w].errors
                                    ELSE worker[w].errors \cup {c}]
    <3>1. /\ new \in Worker /\ new.queue \in Queues
          /\ new.step = "next" /\ new.hand = {}
      <4> DEFINE E == IF cand[c].state = "PROCESSED" THEN worker[w].errors
                      ELSE worker[w].errors \cup {c}
      <4>1. E \in SUBSET Cands /\ worker[w].todo \ {c} \in SUBSET Cands
        BY <2>1 DEF Worker
      <4>2. new = [worker[w] EXCEPT !.todo = worker[w].todo \ {c},
                                    !.errors = E]
        BY <2>1 DEF Worker
      <4> HIDE DEF new, E
      <4>3. new \in Worker
        BY <2>1, <4>1, <4>2, WorkerPasses
      <4> QED
        BY <1>13, <2>1, <4>2, <4>3 DEF Look, Worker
    <3>2. Holds(w, new)
      BY <1>13, <2>3, <3>1, Sets DEF Look
    <3> HIDE DEF new
    <3> QED
      BY <1>13, <3>1, <3>2, BaseKept DEF Look, Holds
  <2> QED
    BY <2>2, <2>3
<1>14. ASSUME NEW w \in Workers, NEW c \in Cands, Promote(w, c) PROVE Typed'
  <2> DEFINE q == worker[w].queue
  <2> q \in Queues /\ queue[q] \in Queue /\ worker[w] \in Worker
    BY <1>14, WorkerQueue DEF Promote
  <2>1. queue[q].target \in Targets
    BY DEF Queue
  <2>2. entity' \in [Cands -> Entity]
    BY <1>14, <2>1 DEF Promote, Entity, Targets, EntityStatuses
  <2>3. cand' \in [Cands -> Row]
    BY <1>14 DEF Promote, Row
  <2>4. promoted' \in [Cands -> Seq(Targets)]
    BY <1>14, <2>1 DEF Promote
  <2> DEFINE new == [worker[w] EXCEPT !.step = "next", !.hand = {},
                                      !.known[c] = entity'[c]]
  <2>5. /\ new \in Worker /\ new.queue \in Queues /\ new.hand = {}
        /\ new.step = "next"
    BY <2>2 DEF Worker
  <2>6. Holds(w, new)
    BY <1>14, <2>5, Sets DEF Promote
  <2> HIDE DEF new
  <2> QED
    BY <1>14, <2>2, <2>3, <2>4, <2>5, <2>6, BaseKept DEF Promote, Holds
<1>15. ASSUME NEW w \in Workers, NEW c \in Cands,
             RefuseRecord(w, c)
      PROVE  Typed'
  <2> DEFINE new == [worker[w] EXCEPT !.step = "next", !.hand = {},
                                      !.errors = worker[w].errors \cup {c}]
  <2>1. /\ new \in Worker /\ new.queue \in Queues /\ new.hand = {}
        /\ new.step = "next"
    <3> DEFINE E == worker[w].errors \cup {c}
    <3>1. worker[w] \in Worker /\ worker[w].queue \in Queues /\ E \in SUBSET Cands
      BY <1>15 DEF Worker, RefuseRecord
    <3>2. new = [worker[w] EXCEPT !.step = "next", !.hand = {}, !.errors = E]
      BY <3>1 DEF Worker
    <3> HIDE DEF new, E
    <3>3. new \in Worker
      BY <3>1, <3>2, WorkerRefuses
    <3> QED
      BY <3>1, <3>2, <3>3 DEF Worker
  <2>2. Holds(w, new)
    BY <1>15, <2>1, Sets DEF RefuseRecord
  <2> HIDE DEF new
  <2> QED
    BY <1>15, <2>1, <2>2, BaseKept DEF RefuseRecord, Holds
<1>16. ASSUME NEW w \in Workers, Finish(w) PROVE Typed'
  <2> DEFINE q == worker[w].queue
  <2> q \in Queues /\ queue[q] \in Queue /\ worker[w].errors \in SUBSET Cands
    BY <1>16, WorkerQueue DEF Finish, Worker
  <2>1. queue' \in [Queues -> Queue]
    <3> DEFINE s == IF worker[w].errors = {} THEN "COMPLETED" ELSE "FAILED"
               Q == [queue[q] EXCEPT !.status = s, !.errors = worker[w].errors,
                                     !.finishes = queue[q].finishes + 1]
    <3>1. s \in QueueStatuses /\ queue[q].finishes + 1 \in Nat
      BY DEF QueueStatuses, Queue
    <3>2. Q \in Queue
      BY <3>1, QueueUpdates
    <3>3. queue' = [queue EXCEPT ![q] = Q]
      BY <1>16 DEF Finish
    <3> QED
      BY <3>2, <3>3, QueueChanges
  <2> QED
    BY <1>16, <2>1, Releases DEF Finish, Holds
<1>17. ASSUME NEW w \in Workers, FinishRefused(w) PROVE Typed'
  BY <1>17, Releases DEF FinishRefused, Holds
<1>18. ASSUME NEW w \in Workers, Heartbeat(w) PROVE Typed'
  <2>1. worker[w].queue \in Queues
    BY <1>18, WorkerQueue DEF Heartbeat
  <2> DEFINE Q == [queue[worker[w].queue] EXCEPT !.leased = TRUE]
  <2>2. Q \in Queue
    BY <2>1, QueueUpdates DEF QueueStatuses
  <2>3. queue' = [queue EXCEPT ![worker[w].queue] = Q]
    BY <1>18 DEF Heartbeat
  <2>4. queue' \in [Queues -> Queue]
    BY <2>1, <2>2, <2>3, QueueChanges
  <2> QED
    BY <1>18, <2>4 DEF Heartbeat
<1>19. ASSUME NEW w \in Workers, Crash(w) PROVE Typed'
  BY <1>19, FaultTyped, Releases DEF Crash, Holds, FaultKinds
<1>20. ASSUME NEW w \in Workers, NEW q \in Queues, Claim(w, q) PROVE Typed'
  <2> DEFINE new == [Free EXCEPT !.step = "start", !.queue = q]
  <2>1. /\ new \in Worker /\ new.queue \in Queues /\ new.hand = {}
        /\ new.step = "start" /\ new.base = "none"
    <3>1. q \in 0 .. MaxQueues
      BY DEF Queues
    <3> QED
      BY <3>1, FreeIsWorker DEF Worker, Free
  <2>2. Holds(w, new)
    BY <1>20, <2>1, Sets DEF Claim
  <2>3. queue' \in [Queues -> Queue]
    <3> DEFINE Q == [queue[q] EXCEPT !.status = "PROCESSING", !.leased = TRUE]
    <3>1. Q \in Queue
      BY QueueUpdates DEF QueueStatuses
    <3>2. queue' = [queue EXCEPT ![q] = Q]
      BY <1>20 DEF Claim
    <3> QED
      BY <3>1, <3>2, QueueChanges
  <2> HIDE DEF new
  <2> QED
    BY <1>20, <2>1, <2>2, <2>3 DEF Claim, Holds
<1>21. ASSUME NEW q \in Queues, LeaseExpires(q) PROVE Typed'
  BY <1>21 DEF LeaseExpires, Queue
<1>22. ASSUME NEW q \in Queues, Overrun(q) PROVE Typed'
  <2>1. faults' \in [FaultKinds -> Nat]
    BY <1>22, FaultTyped DEF Overrun, FaultKinds
  <2>2. [queue[q] EXCEPT !.leased = FALSE] \in Queue
    BY QueueUpdates DEF QueueStatuses
  <2>3. queue' = [queue EXCEPT ![q] = [queue[q] EXCEPT !.leased = FALSE]]
    BY <1>22 DEF Overrun
  <2>4. queue' \in [Queues -> Queue]
    BY <2>2, <2>3, QueueChanges
  <2> QED
    BY <1>22, <2>1, <2>4 DEF Overrun
<1>23. ASSUME NEW q \in Queues, Recover(q) PROVE Typed'
  BY <1>23 DEF Recover, Queue, QueueStatuses
<1>24. ASSUME NEW q \in Queues, DeadLetter(q) PROVE Typed'
  <2>1. faults' \in [FaultKinds -> Nat]
    BY <1>24, FaultTyped DEF DeadLetter, FaultKinds
  <2>2. queue' \in [Queues -> Queue]
    <3> DEFINE Q == [queue[q] EXCEPT !.status = "FAILED", !.leased = FALSE,
                                     !.finishes = queue[q].finishes + 1]
    <3>1. queue[q].finishes + 1 \in Nat
      BY DEF Queue
    <3>2. Q \in Queue
      BY <3>1, QueueUpdates DEF QueueStatuses
    <3>3. queue' = [queue EXCEPT ![q] = Q]
      BY <1>24 DEF DeadLetter
    <3> QED
      BY <3>2, <3>3, QueueChanges
  <2> QED
    BY <1>24, <2>1, <2>2 DEF DeadLetter
<1>25. CASE UNCHANGED vars
  BY <1>25 DEF vars
<1>26. ASSUME NEW c \in Cands, LateCheckpoint(c) PROVE Typed'
  <2>1. cand' \in [Cands -> Row]
    <3>1. CASE StagedAgain(c)
      BY <3>1 DEF StagedAgain, Row, Staged
    <3>2. CASE StagedOver(c)
      <4>1. (IF Staged(c) THEN cand[c].queue ELSE 0) \in 0 .. MaxQueues
        BY DEF Row
      <4> QED
        BY <3>2, <4>1 DEF StagedOver, Row
    <3> QED
      BY <1>26, <3>1, <3>2 DEF LateCheckpoint
  <2>3. promoted' \in [Cands -> Seq(Targets)]
    <3>1. <<>> \in Seq(Targets) /\ promoted[c] \in Seq(Targets)
      OBVIOUS
    <3>2. PICK h \in Seq(Targets) : promoted' = [promoted EXCEPT ![c] = h]
      BY <1>26, <3>1 DEF LateCheckpoint, StagedAgain, StagedOver
    <3> QED
      BY <3>2
  <2>2. faults' \in [FaultKinds -> Nat]
    BY <1>26, FaultTyped DEF LateCheckpoint, FaultKinds
  <2> QED
    BY <1>26, <2>1, <2>2, <2>3 DEF LateCheckpoint
<1>27. CASE Requeue
  BY <1>27, FaultTyped DEF Requeue, FaultKinds
<1>28. ASSUME NEW w \in Workers, Begin(w) PROVE Typed'
  <2> DEFINE q == worker[w].queue
  <2>1. PICK status \in QueueStatuses :
          /\ status /= "deleted"
          /\ queue' = [queue EXCEPT ![q] = [queue[q] EXCEPT !.status = status]]
          /\ worker'[w] = [worker[w] EXCEPT !.step = "next", !.base = status,
                                            !.finishes = queue[q].finishes]
    BY <1>28, BeginChanges
  <2>2. /\ worker' \in [Workers -> Worker] /\ q \in Queues
        /\ \A v \in Workers \ {w} :
              \/ worker'[v] = worker[v]
              \/ worker'[v] = [worker[v] EXCEPT !.base = "stale"]
    BY <1>28, BeginChanges
  <2>3. queue' \in [Queues -> Queue]
    BY <2>1, <2>2, QueueUpdates, QueueChanges
  <2>4. /\ worker'[w].step = "next" /\ worker'[w].queue = q
        /\ worker'[w].hand = {} /\ worker'[w].base /= "deleted"
    <3>1. worker[w] \in Worker /\ worker[w].hand = {}
      BY <1>28 DEF Begin
    <3> QED
      BY <2>1, <3>1 DEF Worker
  <2>5. QueueHeld'
    <3> SUFFICES ASSUME NEW v \in Workers \ {w}
                 PROVE  /\ worker'[v].step /= "idle" => worker'[v].queue \in Queues
                        /\ worker'[v].step /= "write" => worker'[v].hand = {}
                        /\ worker'[v].step = "begin" =>
                              worker'[v].base /= "COMPLETED"
                        /\ worker'[v].base /= "deleted"
      BY <2>2, <2>4
    <3>1. CASE worker'[v] = worker[v]
      BY <3>1
    <3>2. CASE worker'[v] = [worker[v] EXCEPT !.base = "stale"]
      BY <3>2 DEF Worker
    <3> QED
      BY <2>2, <3>1, <3>2
  <2> QED
    BY <1>28, <2>2, <2>3, <2>5 DEF Begin
<1>29. ASSUME NEW w \in Workers, BeginRefused(w) PROVE Typed'
  BY <1>29, Releases DEF BeginRefused, Holds
<1> QED
  BY <1>1, <1>2, <1>3, <1>4, <1>5, <1>6, <1>7, <1>8, <1>9, <1>10, <1>11,
     <1>12, <1>13, <1>14, <1>15, <1>16, <1>17, <1>18, <1>19, <1>20,
     <1>21, <1>22, <1>23, <1>24, <1>25,
     <1>26, <1>27, <1>28, <1>29
     DEF Next, Preprocess, Reviewer, Work

-----------------------------------------------------------------------------
\* What a promotion rests on, under every fault.

\* A candidate that was promoted is not promotable any more.
PromotedIsProcessed ==
    \A c \in Cands :
      /\ Len(promoted[c]) <= 1
      /\ promoted[c] /= <<>> => cand[c].state \in {"PROCESSED", "gone"}

\* A worker has one candidate in hand, about an entity it took to be free.
ReadUnapproved ==
    \A w \in Workers : \A c \in worker[w].hand :
        worker[w].hand = {c} /\ worker[w].known[c].status /= "APPROVED"

\* A cancelled run has no candidate left, and nobody stages one but late.
CancelledIsQuiet ==
    run = "CANCELLED" =>
      /\ prep = "done"
      /\ NoFault("late") =>
            \A c \in Cands : cand[c].state \in {"unstaged", "gone"}

ReviewInv == Typed /\ PromotedIsProcessed /\ ReadUnapproved /\ CancelledIsQuiet

\* Nothing is staged, promoted or read when the run is created.
LEMMA InitReviewInv == Init => ReviewInv
<1> SUFFICES ASSUME Init PROVE ReviewInv
  OBVIOUS
<1>1. \A w \in Workers : worker[w].hand = {}
  BY DEF Init, Free
<1> QED
  BY <1>1, InitTyped
     DEF Init, ReviewInv, PromotedIsProcessed, ReadUnapproved,
         CancelledIsQuiet

\* The history of a candidate that is promoted now was empty.
LEMMA PromotionIsFirst ==
    ASSUME Typed, PromotedIsProcessed, NEW w \in Workers, NEW c \in Cands,
           Promote(w, c)
    PROVE  LET target == queue[worker[w].queue].target IN
           /\ target \in Targets
           /\ promoted' = [promoted EXCEPT ![c] = <<target>>]
           /\ promoted' \in [Cands -> Seq(Targets)]
<1> DEFINE target == queue[worker[w].queue].target
<1>1. target \in Targets
  BY WorkerQueue DEF Promote, Queue
<1>2. promoted[c] = <<>>
  BY DEF Promote, Unchanged, PromotedIsProcessed
<1>3. Append(<<>>, target) = <<target>>
  OBVIOUS
<1> QED
  BY <1>1, <1>2, <1>3 DEF Promote, Typed, TypeOK

\* _materialize_import_candidate: what is promoted is marked PROCESSED in
\* the same transaction, and nobody takes the mark back.
LEMMA NextPromoted ==
    ASSUME Typed, PromotedIsProcessed, [Next]_vars
    PROVE  PromotedIsProcessed'
<1> USE DEF Typed, TypeOK, PromotedIsProcessed
<1>1. ASSUME NEW c \in Cands, StageNew(c) PROVE PromotedIsProcessed'
  BY <1>1 DEF StageNew, Row
<1>2. ASSUME NEW c \in Cands, Restage(c) PROVE PromotedIsProcessed'
  BY <1>2 DEF Restage, StagedAgain, Staged, Row
<1>3. CASE Preprocessed
  BY <1>3 DEF Preprocessed
<1>4. CASE StopPreprocessing
  BY <1>4 DEF StopPreprocessing
<1>5. CASE Resume
  BY <1>5 DEF Resume
<1>6. ASSUME NEW c \in Cands, Confirm(c) PROVE PromotedIsProcessed'
  BY <1>6 DEF Confirm, Row
<1>7. ASSUME NEW c \in Cands, Reject(c) PROVE PromotedIsProcessed'
  BY <1>7 DEF Reject, Row
<1>8. ASSUME NEW c \in Cands, ReviewEntity(c) PROVE PromotedIsProcessed'
  BY <1>8 DEF ReviewEntity
<1>9. ASSUME NEW q \in Queues, NEW S \in SUBSET Cands, NEW t \in Targets,
             Submit(q, S, t)
      PROVE  PromotedIsProcessed'
  BY <1>9 DEF Submit, Row, Submittable
<1>10. CASE Finalize
  BY <1>10 DEF Finalize, Discarded, Row
<1>11. CASE Cancel
  BY <1>11 DEF Cancel, Discarded, Row
<1>12. ASSUME NEW w \in Workers, Start(w) PROVE PromotedIsProcessed'
  BY <1>12 DEF Start
<1>13. ASSUME NEW w \in Workers, NEW c \in Cands,
             Look(w, c)
      PROVE  PromotedIsProcessed'
  BY <1>13 DEF Look
<1>14. ASSUME NEW w \in Workers, NEW c \in Cands,
             Promote(w, c)
      PROVE  PromotedIsProcessed'
  <2> DEFINE target == queue[worker[w].queue].target
  <2>1. promoted' = [promoted EXCEPT ![c] = <<target>>]
    BY <1>14, PromotionIsFirst
  <2>2. Len(promoted'[c]) = 1
    <3>1. promoted'[c] = <<target>>
      BY <2>1
    <3> HIDE DEF target
    <3>2. Len(<<target>>) = 1
      OBVIOUS
    <3> QED
      BY ONLY <3>1, <3>2, Zenon
  <2>3. \A d \in Cands : /\ cand'[d].state = IF d = c THEN "PROCESSED"
                                             ELSE cand[d].state
    BY <1>14 DEF Promote, Row
  <2>4. /\ \A d \in Cands \ {c} : promoted'[d] = promoted[d]
        /\ promoted'[c] = <<target>>
    BY <2>1
  <2> HIDE DEF target
  <2> SUFFICES ASSUME NEW d \in Cands
               PROVE  /\ Len(promoted'[d]) <= 1
                      /\ promoted'[d] /= <<>> =>
                            cand'[d].state \in {"PROCESSED", "gone"}
    OBVIOUS
  <2>5. CASE d = c
    <3>1. cand'[c].state = "PROCESSED"
      BY <2>3
    <3>2. Len(promoted'[c]) <= 1
      BY ONLY <2>2
    <3> QED
      BY ONLY <2>5, <3>1, <3>2
  <2>6. CASE d /= c
    BY <2>3, <2>4, <2>6
  <2> QED
    BY <2>5, <2>6
<1>15. ASSUME NEW w \in Workers, NEW c \in Cands,
             RefuseRecord(w, c)
      PROVE  PromotedIsProcessed'
  BY <1>15 DEF RefuseRecord
<1>16. ASSUME NEW w \in Workers, Finish(w) PROVE PromotedIsProcessed'
  BY <1>16 DEF Finish
<1>17. ASSUME NEW w \in Workers, FinishRefused(w) PROVE PromotedIsProcessed'
  BY <1>17 DEF FinishRefused
<1>18. ASSUME NEW w \in Workers, Heartbeat(w) PROVE PromotedIsProcessed'
  BY <1>18 DEF Heartbeat
<1>19. ASSUME NEW w \in Workers, Crash(w) PROVE PromotedIsProcessed'
  BY <1>19 DEF Crash
<1>20. ASSUME NEW w \in Workers, NEW q \in Queues,
             Claim(w, q)
      PROVE  PromotedIsProcessed'
  BY <1>20 DEF Claim
<1>21. ASSUME NEW q \in Queues, LeaseExpires(q) PROVE PromotedIsProcessed'
  BY <1>21 DEF LeaseExpires
<1>22. ASSUME NEW q \in Queues, Overrun(q) PROVE PromotedIsProcessed'
  BY <1>22 DEF Overrun
<1>23. ASSUME NEW q \in Queues, Recover(q) PROVE PromotedIsProcessed'
  BY <1>23 DEF Recover
<1>24. ASSUME NEW q \in Queues, DeadLetter(q) PROVE PromotedIsProcessed'
  BY <1>24 DEF DeadLetter
<1>25. CASE UNCHANGED vars
  BY <1>25 DEF vars
<1>26. ASSUME NEW c \in Cands, LateCheckpoint(c) PROVE PromotedIsProcessed'
  BY <1>26 DEF LateCheckpoint, StagedAgain, StagedOver, Staged, Row
<1>27. CASE Requeue
  BY <1>27 DEF Requeue
<1>28. ASSUME NEW w \in Workers, Begin(w) PROVE PromotedIsProcessed'
  BY <1>28 DEF Begin
<1>29. ASSUME NEW w \in Workers, BeginRefused(w) PROVE PromotedIsProcessed'
  BY <1>29 DEF BeginRefused
<1> QED
  BY <1>1, <1>2, <1>3, <1>4, <1>5, <1>6, <1>7, <1>8, <1>9, <1>10, <1>11,
     <1>12, <1>13, <1>14, <1>15, <1>16, <1>17, <1>18, <1>19, <1>20,
     <1>21, <1>22, <1>23, <1>24, <1>25,
     <1>26, <1>27, <1>28, <1>29
     DEF Next, Preprocess, Reviewer, Work

\* What a worker goes by while it holds a candidate is not an approved entity.
LEMMA NextRead ==
    ASSUME Typed, ReadUnapproved, [Next]_vars
    PROVE  ReadUnapproved'
<1> USE DEF Typed, ReadUnapproved
<1>0. ASSUME NEW w \in Workers, NEW record, Set(w, record), record.hand = {}
      PROVE  ReadUnapproved'
  BY <1>0, SetsOne
<1>a. ASSUME NEW w \in Workers, Release(w) PROVE ReadUnapproved'
  BY <1>a, <1>0 DEF Release, Free
<1>1. ASSUME NEW c \in Cands, StageNew(c) PROVE ReadUnapproved'
  BY <1>1 DEF StageNew
<1>2. ASSUME NEW c \in Cands, Restage(c) PROVE ReadUnapproved'
  BY <1>2 DEF Restage
<1>3. CASE Preprocessed
  BY <1>3 DEF Preprocessed
<1>4. CASE StopPreprocessing
  BY <1>4 DEF StopPreprocessing
<1>5. CASE Resume
  BY <1>5 DEF Resume
<1>6. ASSUME NEW c \in Cands, Confirm(c) PROVE ReadUnapproved'
  BY <1>6 DEF Confirm
<1>7. ASSUME NEW c \in Cands, Reject(c) PROVE ReadUnapproved'
  BY <1>7 DEF Reject
<1>8. ASSUME NEW c \in Cands, ReviewEntity(c) PROVE ReadUnapproved'
  BY <1>8 DEF ReviewEntity
<1>9. ASSUME NEW q \in Queues, NEW S \in SUBSET Cands, NEW t \in Targets,
             Submit(q, S, t)
      PROVE  ReadUnapproved'
  BY <1>9 DEF Submit
<1>10. CASE Finalize
  BY <1>10 DEF Finalize
<1>11. CASE Cancel
  BY <1>11 DEF Cancel
<1>12. ASSUME NEW w \in Workers, Start(w) PROVE ReadUnapproved'
  <2>1. CASE Release(w)
    BY <2>1, <1>a
  <2>2. CASE ~Release(w)
    <3> DEFINE q == worker[w].queue
               new == [Free EXCEPT !.step = "begin", !.queue = q,
                                   !.base = queue[q].status,
                                   !.todo = queue[q].records]
    <3>1. new.hand = {}
      BY DEF Free
    <3>2. Set(w, new)
      BY <1>12, <2>2 DEF Start
    <3> QED
      BY <3>1, <3>2, <1>0
  <2> QED
    BY <2>1, <2>2
<1>13. ASSUME NEW w \in Workers, NEW c \in Cands,
             Look(w, c)
      PROVE  ReadUnapproved'
  <2>1. worker[w] \in Worker /\ c \in worker[w].todo
    BY <1>13 DEF Look, TypeOK
  <2>2. CASE Promotable(w, c)
    <3> DEFINE new == [worker[w] EXCEPT !.step = "write", !.hand = {c},
                         !.todo = worker[w].todo \ {c},
                         !.edition = cand[c].edition,
                         !.known = [d \in Cands |-> Known(w, d)]]
    <3>1. new.hand = {c} /\ new.known[c] = Known(w, c)
      BY <2>1 DEF Worker
    <3>2. Set(w, new)
      BY <1>13, <2>2 DEF Look
    <3>3. Known(w, c).status /= "APPROVED"
      BY <2>2 DEF Promotable
    <3> HIDE DEF new
    <3> QED
      BY <3>1, <3>2, <3>3, SetsOne
  <2>3. CASE ~Promotable(w, c)
    <3> DEFINE new == [worker[w] EXCEPT !.todo = worker[w].todo \ {c},
                         !.errors = IF cand[c].state = "PROCESSED"
                                    THEN worker[w].errors
                                    ELSE worker[w].errors \cup {c}]
    <3>1. new.hand = {}
      BY <1>13, <2>1 DEF Worker, Look, QueueHeld
    <3>2. Set(w, new)
      BY <1>13, <2>3 DEF Look
    <3> QED
      BY <3>1, <3>2, <1>0
  <2> QED
    BY <2>2, <2>3
<1>14. ASSUME NEW w \in Workers, NEW c \in Cands,
             Promote(w, c)
      PROVE  ReadUnapproved'
  <2> DEFINE new == [worker[w] EXCEPT !.step = "next", !.hand = {},
                                      !.known[c] = entity'[c]]
  <2>1. new.hand = {}
    BY DEF TypeOK, Worker
  <2>2. Set(w, new)
    BY <1>14 DEF Promote
  <2> QED
    BY <2>1, <2>2, <1>0
<1>15. ASSUME NEW w \in Workers, NEW c \in Cands,
             RefuseRecord(w, c)
      PROVE  ReadUnapproved'
  <2> DEFINE new == [worker[w] EXCEPT !.step = "next", !.hand = {},
                                      !.errors = worker[w].errors \cup {c}]
  <2>1. new.hand = {}
    BY DEF TypeOK, Worker
  <2>2. Set(w, new)
    BY <1>15 DEF RefuseRecord
  <2> QED
    BY <2>1, <2>2, <1>0
<1>16. ASSUME NEW w \in Workers, Finish(w) PROVE ReadUnapproved'
  BY <1>16, <1>a DEF Finish
<1>17. ASSUME NEW w \in Workers, FinishRefused(w) PROVE ReadUnapproved'
  BY <1>17, <1>a DEF FinishRefused
<1>18. ASSUME NEW w \in Workers, Heartbeat(w) PROVE ReadUnapproved'
  BY <1>18 DEF Heartbeat
<1>19. ASSUME NEW w \in Workers, Crash(w) PROVE ReadUnapproved'
  BY <1>19, <1>a DEF Crash
<1>20. ASSUME NEW w \in Workers, NEW q \in Queues,
             Claim(w, q)
      PROVE  ReadUnapproved'
  <2>1. [Free EXCEPT !.step = "start", !.queue = q].hand = {}
    BY DEF Free
  <2> QED
    BY <1>20, <2>1, <1>0 DEF Claim
<1>21. ASSUME NEW q \in Queues, LeaseExpires(q) PROVE ReadUnapproved'
  BY <1>21 DEF LeaseExpires
<1>22. ASSUME NEW q \in Queues, Overrun(q) PROVE ReadUnapproved'
  BY <1>22 DEF Overrun
<1>23. ASSUME NEW q \in Queues, Recover(q) PROVE ReadUnapproved'
  BY <1>23 DEF Recover
<1>24. ASSUME NEW q \in Queues, DeadLetter(q) PROVE ReadUnapproved'
  BY <1>24 DEF DeadLetter
<1>25. CASE UNCHANGED vars
  BY <1>25 DEF vars
<1>26. ASSUME NEW c \in Cands, LateCheckpoint(c) PROVE ReadUnapproved'
  BY <1>26 DEF LateCheckpoint
<1>27. CASE Requeue
  BY <1>27 DEF Requeue
<1>28. ASSUME NEW w \in Workers, Begin(w) PROVE ReadUnapproved'
  <2>1. \A v \in Workers : worker[v] \in Worker
    BY DEF TypeOK
  <2>2. worker'[w].hand = {}
    BY <1>28, <2>1, BeginChanges DEF Worker, Begin, QueueHeld
  <2>3. \A v \in Workers \ {w} : /\ worker'[v].hand = worker[v].hand
                                 /\ worker'[v].known = worker[v].known
    <3> TAKE v \in Workers \ {w}
    <3>1. \/ worker'[v] = worker[v]
          \/ worker'[v] = [worker[v] EXCEPT !.base = "stale"]
      BY <1>28, BeginChanges
    <3> QED
      BY <2>1, <3>1 DEF Worker
  <2> QED
    BY <2>2, <2>3
<1>29. ASSUME NEW w \in Workers, BeginRefused(w) PROVE ReadUnapproved'
  BY <1>29, <1>a DEF BeginRefused
<1> QED
  BY <1>1, <1>2, <1>3, <1>4, <1>5, <1>6, <1>7, <1>8, <1>9, <1>10, <1>11,
     <1>12, <1>13, <1>14, <1>15, <1>16, <1>17, <1>18, <1>19, <1>20,
     <1>21, <1>22, <1>23, <1>24, <1>25,
     <1>26, <1>27, <1>28, <1>29
     DEF Next, Preprocess, Reviewer, Work

\* cancel_import leaves no candidate and no queue that could be worked on.
LEMMA NextQuiet ==
    ASSUME Typed, CancelledIsQuiet, [Next]_vars
    PROVE  CancelledIsQuiet'
<1> USE DEF Typed, TypeOK, CancelledIsQuiet, NoFault, Fault
<1>1. ASSUME NEW c \in Cands, StageNew(c) PROVE CancelledIsQuiet'
  BY <1>1 DEF StageNew, Row
<1>2. ASSUME NEW c \in Cands, Restage(c) PROVE CancelledIsQuiet'
  BY <1>2 DEF Restage, StagedAgain, Staged, Row
<1>3. CASE Preprocessed
  BY <1>3 DEF Preprocessed
<1>4. CASE StopPreprocessing
  BY <1>4 DEF StopPreprocessing, FaultKinds
<1>5. CASE Resume
  BY <1>5 DEF Resume
<1>6. ASSUME NEW c \in Cands, Confirm(c) PROVE CancelledIsQuiet'
  BY <1>6 DEF Confirm, Row
<1>7. ASSUME NEW c \in Cands, Reject(c) PROVE CancelledIsQuiet'
  BY <1>7 DEF Reject, Row, Staged
<1>8. ASSUME NEW c \in Cands, ReviewEntity(c) PROVE CancelledIsQuiet'
  BY <1>8 DEF ReviewEntity
<1>9. ASSUME NEW q \in Queues, NEW S \in SUBSET Cands, NEW t \in Targets,
             Submit(q, S, t)
      PROVE  CancelledIsQuiet'
  <2>1. S \subseteq Cands /\ \A c \in S : cand[c].state \in {"PENDING", "CONFIRMED"}
    BY <1>9 DEF Submit, Submittable
  <2>2. run' = run /\ prep' = prep /\ S /= {}
    BY <1>9 DEF Submit
  <2>3. run = "CANCELLED" => ~NoFault("late")
    BY <2>1, <2>2
  <2>4. faults' = faults
    BY <1>9 DEF Submit
  <2> QED
    BY <2>2, <2>3, <2>4
<1>10. CASE Finalize
  BY <1>10 DEF Finalize, Discarded, Row
<1>11. CASE Cancel
  BY <1>11 DEF Cancel, Discarded, Row
<1>12. ASSUME NEW w \in Workers, Start(w) PROVE CancelledIsQuiet'
  BY <1>12 DEF Start
<1>13. ASSUME NEW w \in Workers, NEW c \in Cands,
             Look(w, c)
      PROVE  CancelledIsQuiet'
  BY <1>13 DEF Look
<1>14. ASSUME NEW w \in Workers, NEW c \in Cands,
             Promote(w, c)
      PROVE  CancelledIsQuiet'
  <2>1. /\ run' = run /\ prep' = prep /\ faults' = faults
        /\ cand[c].state = "CONFIRMED"
    BY <1>14 DEF Promote, Unchanged
  <2> QED
    BY <2>1
<1>15. ASSUME NEW w \in Workers, NEW c \in Cands,
             RefuseRecord(w, c)
      PROVE  CancelledIsQuiet'
  BY <1>15 DEF RefuseRecord
<1>16. ASSUME NEW w \in Workers, Finish(w) PROVE CancelledIsQuiet'
  BY <1>16 DEF Finish
<1>17. ASSUME NEW w \in Workers, FinishRefused(w) PROVE CancelledIsQuiet'
  BY <1>17 DEF FinishRefused
<1>18. ASSUME NEW w \in Workers, Heartbeat(w) PROVE CancelledIsQuiet'
  BY <1>18 DEF Heartbeat
<1>19. ASSUME NEW w \in Workers, Crash(w) PROVE CancelledIsQuiet'
  BY <1>19 DEF Crash, FaultKinds
<1>20. ASSUME NEW w \in Workers, NEW q \in Queues,
             Claim(w, q)
      PROVE  CancelledIsQuiet'
  BY <1>20 DEF Claim
<1>21. ASSUME NEW q \in Queues, LeaseExpires(q) PROVE CancelledIsQuiet'
  BY <1>21 DEF LeaseExpires
<1>22. ASSUME NEW q \in Queues, Overrun(q) PROVE CancelledIsQuiet'
  BY <1>22 DEF Overrun, FaultKinds
<1>23. ASSUME NEW q \in Queues, Recover(q) PROVE CancelledIsQuiet'
  BY <1>23 DEF Recover
<1>24. ASSUME NEW q \in Queues, DeadLetter(q) PROVE CancelledIsQuiet'
  BY <1>24 DEF DeadLetter, FaultKinds
<1>25. CASE UNCHANGED vars
  BY <1>25 DEF vars
<1>26. ASSUME NEW c \in Cands, LateCheckpoint(c) PROVE CancelledIsQuiet'
  BY <1>26 DEF LateCheckpoint, FaultKinds
<1>27. CASE Requeue
  BY <1>27 DEF Requeue
<1>28. ASSUME NEW w \in Workers, Begin(w) PROVE CancelledIsQuiet'
  BY <1>28 DEF Begin
<1>29. ASSUME NEW w \in Workers, BeginRefused(w) PROVE CancelledIsQuiet'
  BY <1>29 DEF BeginRefused
<1> QED
  BY <1>1, <1>2, <1>3, <1>4, <1>5, <1>6, <1>7, <1>8, <1>9, <1>10, <1>11,
     <1>12, <1>13, <1>14, <1>15, <1>16, <1>17, <1>18, <1>19, <1>20,
     <1>21, <1>22, <1>23, <1>24, <1>25,
     <1>26, <1>27, <1>28, <1>29
     DEF Next, Preprocess, Reviewer, Work

\* What holds under every fault is kept by every step.
LEMMA NextReviewInv == ReviewInv /\ [Next]_vars => ReviewInv'
BY NextTyped, NextPromoted, NextRead, NextQuiet DEF ReviewInv

\* What holds under every fault holds in every reachable state.
LEMMA ReviewInvHolds == Spec => []ReviewInv
BY InitReviewInv, NextReviewInv, PTL DEF Spec

-----------------------------------------------------------------------------
\* What the steps do to the workers, the queues and the candidates.

Moved(w, step, q, todo, hand, errors) ==
    /\ worker'[w].step = step /\ worker'[w].queue = q
    /\ worker'[w].todo = todo /\ worker'[w].hand = hand
    /\ worker'[w].errors = errors
    /\ \A v \in Workers \ {w} : worker'[v] = worker[v]

Freed(w) == Moved(w, "idle", 0, {}, {}, {})

\* Queue q keeps its records and its target.
QueueSet(q, status) ==
    /\ queue'[q].status = status
    /\ queue'[q].records = queue[q].records
    /\ queue'[q].target = queue[q].target
    /\ \A p \in Queues \ {q} : queue'[p] = queue[p]

\* What is left when a worker leaves its queue.
LEMMA Frees == ASSUME TypeOK, NEW w \in Workers, Release(w) PROVE Freed(w)
<1>1. /\ worker'[w] = Free
      /\ \A v \in Workers \ {w} : worker'[v] = worker[v]
  BY SetsOne DEF Release
<1> QED
  BY <1>1 DEF Freed, Moved, Free

\* The claim of _process_import_queue: a queue nobody has a lease on.
LEMMA ClaimEffect ==
    ASSUME Typed, NEW w \in Workers, NEW q \in Queues, Claim(w, q)
    PROVE  /\ worker[w].step = "idle"
           /\ queue[q].status \in {"QUEUED", "PROCESSING"}
           /\ queue[q].status = "QUEUED" \/ queue[q].leased = FALSE
           /\ Moved(w, "start", q, {}, {}, {})
           /\ QueueSet(q, "PROCESSING") /\ queue'[q].leased = TRUE
           /\ UNCHANGED <<prep, replay, cand, promoted>>
<1> DEFINE new == [Free EXCEPT !.step = "start", !.queue = q]
<1>1. /\ worker'[w] = new
      /\ \A v \in Workers \ {w} : worker'[v] = worker[v]
  BY SetsOne DEF Claim, Typed
<1>2. Moved(w, "start", q, {}, {}, {})
  BY <1>1 DEF Moved, Free
<1>3. QueueSet(q, "PROCESSING") /\ queue'[q].leased = TRUE
  BY DEF Claim, Typed, TypeOK, QueueSet, Queue
<1>4. queue[q].status \in {"QUEUED", "PROCESSING"}
  BY DEF Claim, Claimable
<1>5. queue[q].leased \in BOOLEAN
  BY DEF Typed, TypeOK, Queue
<1>6. queue[q].status = "QUEUED" \/ queue[q].leased = FALSE
  BY <1>5 DEF Claim, Claimable
<1> QED
  BY <1>2, <1>3, <1>4, <1>6 DEF Claim

\* A queue was submitted with records of its run.
LEMMA RecordsAreCands ==
    ASSUME Typed, NEW q \in Queues
    PROVE  queue[q].records \subseteq Cands
BY DEF Typed, TypeOK, Queue

\* The queue is read anew: it is taken on, or it is over.
LEMMA StartEffect ==
    ASSUME Typed, NEW w \in Workers, Start(w)
    PROVE  LET q == worker[w].queue IN
           /\ worker[w].step = "start" /\ q \in Queues
           /\ \/ Freed(w)
              \/ /\ queue[q].status \notin {"deleted", "COMPLETED"}
                 /\ Moved(w, "begin", q, queue[q].records, {}, {})
                 /\ worker'[w].base = queue[q].status
           /\ UNCHANGED <<prep, replay, cand, queue, promoted>>
<1> DEFINE q == worker[w].queue
<1> q \in Queues
  BY WorkerQueue DEF Start
<1>1. CASE queue[q].status \in {"deleted", "COMPLETED"}
  BY <1>1, Frees DEF Start, Typed
<1>2. CASE queue[q].status \notin {"deleted", "COMPLETED"}
  <2> DEFINE new == [Free EXCEPT !.step = "begin", !.queue = q,
                                 !.base = queue[q].status,
                                 !.todo = queue[q].records]
  <2>1. Set(w, new)
    BY <1>2 DEF Start
  <2>2. /\ worker'[w] = new
        /\ \A v \in Workers \ {w} : worker'[v] = worker[v]
    BY <2>1, SetsOne DEF Typed
  <2>3. /\ Moved(w, "begin", q, queue[q].records, {}, {})
        /\ worker'[w].base = queue[q].status
    BY <2>2 DEF Moved, Free
  <2> QED
    BY <1>2, <2>3 DEF Start
<1> QED
  BY <1>1, <1>2

\* Each record is checked, and held, passed over or reported.
LEMMA LookEffect ==
    ASSUME Typed, NEW w \in Workers, NEW c \in Cands, Look(w, c)
    PROVE  LET q    == worker[w].queue
               rest == worker[w].todo \ {c}
           IN /\ worker[w].step = "next" /\ c \in worker[w].todo
              /\ q \in Queues /\ worker[w].hand = {}
              /\ \/ Moved(w, "write", q, rest, {c}, worker[w].errors)
                 \/ /\ cand[c].state = "PROCESSED"
                    /\ Moved(w, "next", q, rest, {}, worker[w].errors)
                 \/ Moved(w, "next", q, rest, {}, worker[w].errors \cup {c})
              /\ UNCHANGED <<prep, replay, cand, queue, promoted>>
<1> DEFINE q    == worker[w].queue
           rest == worker[w].todo \ {c}
<1>1. /\ worker[w].step = "next" /\ worker[w].hand = {}
      /\ q \in Queues /\ worker[w] \in Worker
  BY DEF Look, Typed, TypeOK, QueueHeld
<1>2. CASE Promotable(w, c)
  <2> DEFINE new == [worker[w] EXCEPT !.step = "write", !.hand = {c},
                       !.todo = worker[w].todo \ {c},
                       !.edition = cand[c].edition,
                       !.known = [d \in Cands |-> Known(w, d)]]
  <2>1. Set(w, new)
    BY <1>2 DEF Look
  <2>2. /\ worker'[w] = new
        /\ \A v \in Workers \ {w} : worker'[v] = worker[v]
    BY <2>1, SetsOne DEF Typed
  <2>3. /\ new.step = "write" /\ new.queue = q /\ new.todo = rest
        /\ new.hand = {c} /\ new.errors = worker[w].errors
    BY <1>1 DEF Worker
  <2> HIDE DEF new
  <2>4. Moved(w, "write", q, rest, {c}, worker[w].errors)
    BY <2>2, <2>3 DEF Moved
  <2> QED
    BY <1>1, <2>4 DEF Look
<1>3. CASE ~Promotable(w, c)
  <2> DEFINE E   == IF cand[c].state = "PROCESSED" THEN worker[w].errors
                    ELSE worker[w].errors \cup {c}
             new == [worker[w] EXCEPT !.todo = worker[w].todo \ {c},
                                      !.errors = E]
  <2>1. Set(w, new)
    BY <1>3 DEF Look
  <2>2. /\ worker'[w] = new
        /\ \A v \in Workers \ {w} : worker'[v] = worker[v]
    BY <2>1, SetsOne DEF Typed
  <2>3. /\ new.step = "next" /\ new.queue = q /\ new.todo = rest
        /\ new.hand = {} /\ new.errors = E
    <3> HIDE DEF E
    <3> QED
      BY <1>1 DEF Worker
  <2> HIDE DEF new, E
  <2>4. Moved(w, "next", q, rest, {}, E)
    BY <2>2, <2>3 DEF Moved
  <2>5. CASE cand[c].state = "PROCESSED"
    BY <1>1, <2>4, <2>5 DEF Look, E
  <2>6. CASE cand[c].state /= "PROCESSED"
    BY <1>1, <2>4, <2>6 DEF Look, E
  <2> QED
    BY <2>5, <2>6
<1> QED
  BY <1>2, <1>3

\* One record is promoted in one transaction, to the target of its queue.
LEMMA PromoteEffect ==
    ASSUME ReviewInv, NEW w \in Workers, NEW c \in Cands, Promote(w, c)
    PROVE  LET q == worker[w].queue IN
           /\ worker[w].step = "write" /\ worker[w].hand = {c}
           /\ q \in Queues
           /\ cand[c].state = "CONFIRMED" /\ promoted[c] = <<>>
           /\ entity[c].status /= "APPROVED"
           /\ Moved(w, "next", q, worker[w].todo, {}, worker[w].errors)
           /\ cand'[c].state = "PROCESSED" /\ cand'[c].queue = cand[c].queue
           /\ \A d \in Cands \ {c} : cand'[d] = cand[d]
           /\ promoted'[c] = <<queue[q].target>>
           /\ \A d \in Cands \ {c} : promoted'[d] = promoted[d]
           /\ UNCHANGED <<run, prep, replay, queue>>
<1> USE DEF ReviewInv
<1> DEFINE q   == worker[w].queue
           new == [worker[w] EXCEPT !.step = "next", !.hand = {},
                                    !.known[c] = entity'[c]]
<1>1. q \in Queues /\ worker[w] \in Worker /\ cand[c] \in Row
  BY WorkerQueue DEF Promote, Typed, TypeOK
<1>2. /\ worker[w].hand = {c} /\ entity[c].status /= "APPROVED"
      /\ cand[c].state = "CONFIRMED" /\ promoted[c] = <<>>
  BY DEF Promote, Unchanged, ReadUnapproved, PromotedIsProcessed
<1>3. Set(w, new)
  BY DEF Promote
<1>4. /\ worker'[w] = new
      /\ \A v \in Workers \ {w} : worker'[v] = worker[v]
  BY <1>3, SetsOne DEF Typed
<1>5. /\ new.step = "next" /\ new.queue = q /\ new.hand = {}
      /\ new.todo = worker[w].todo /\ new.errors = worker[w].errors
  BY <1>1 DEF Worker
<1> HIDE DEF new
<1>6. Moved(w, "next", q, worker[w].todo, {}, worker[w].errors)
  BY <1>4, <1>5 DEF Moved
<1>7. /\ cand'[c].state = "PROCESSED" /\ cand'[c].queue = cand[c].queue
      /\ \A d \in Cands \ {c} : cand'[d] = cand[d]
  BY <1>1 DEF Promote, Row, Typed, TypeOK
<1>8. /\ promoted'[c] = <<queue[q].target>>
      /\ \A d \in Cands \ {c} : promoted'[d] = promoted[d]
  BY PromotionIsFirst DEF Typed, TypeOK
<1> QED
  BY <1>1, <1>2, <1>6, <1>7, <1>8 DEF Promote

\* A conflict at the flush is reported as an error of the record.
LEMMA RefuseEffect ==
    ASSUME ReviewInv, NEW w \in Workers, NEW c \in Cands, RefuseRecord(w, c)
    PROVE  LET q == worker[w].queue IN
           /\ worker[w].step = "write" /\ worker[w].hand = {c}
           /\ q \in Queues
           /\ Moved(w, "next", q, worker[w].todo, {},
                    worker[w].errors \cup {c})
           /\ UNCHANGED <<prep, replay, cand, queue, promoted>>
<1> USE DEF ReviewInv
<1> DEFINE q   == worker[w].queue
           E   == worker[w].errors \cup {c}
           new == [worker[w] EXCEPT !.step = "next", !.hand = {},
                                    !.errors = E]
<1>1. q \in Queues /\ worker[w] \in Worker /\ worker[w].hand = {c}
  BY WorkerQueue DEF RefuseRecord, Typed, TypeOK, ReadUnapproved
<1>2. Set(w, new)
  BY DEF RefuseRecord
<1>3. /\ worker'[w] = new
      /\ \A v \in Workers \ {w} : worker'[v] = worker[v]
  BY <1>2, SetsOne DEF Typed
<1> HIDE DEF E
<1>4. /\ new.step = "next" /\ new.queue = q /\ new.hand = {}
      /\ new.todo = worker[w].todo /\ new.errors = E
  BY <1>1 DEF Worker
<1> HIDE DEF new
<1>5. Moved(w, "next", q, worker[w].todo, {}, E)
  BY <1>3, <1>4 DEF Moved
<1> QED
  BY <1>1, <1>5 DEF RefuseRecord, E

\* The outcome is written if the queue is still PROCESSING.
LEMMA FinishEffect ==
    ASSUME Typed, NEW w \in Workers, Finish(w)
    PROVE  LET q == worker[w].queue IN
           /\ worker[w].step = "next" /\ worker[w].todo = {}
           /\ worker[w].hand = {} /\ q \in Queues
           /\ queue[q].status = worker[w].base
           /\ Freed(w)
           /\ QueueSet(q, IF worker[w].errors = {} THEN "COMPLETED"
                          ELSE "FAILED")
           /\ UNCHANGED <<prep, replay, cand, promoted>>
<1> DEFINE q == worker[w].queue
           s == IF worker[w].errors = {} THEN "COMPLETED" ELSE "FAILED"
<1>1. q \in Queues /\ worker[w].hand = {} /\ queue[q] \in Queue
  BY WorkerQueue DEF Finish, Typed, TypeOK, QueueHeld
<1>2. queue' = [queue EXCEPT ![q] =
                  [queue[q] EXCEPT !.status = s, !.errors = worker[w].errors,
                                   !.finishes = queue[q].finishes + 1]]
  BY DEF Finish
<1> HIDE DEF s
<1>3. QueueSet(q, s)
  BY <1>1, <1>2 DEF QueueSet, Typed, TypeOK, Queue
<1>4. Freed(w)
  BY Frees DEF Finish, Typed
<1> QED
  BY <1>1, <1>3, <1>4 DEF Finish, OutcomeAccepted, s

\* The requests of reviewers.
LEMMA SubmitEffect ==
    ASSUME Typed, NEW q \in Queues, NEW S \in SUBSET Cands, NEW t \in Targets,
           Submit(q, S, t)
    PROVE  /\ queue[q].status = "none"
           /\ \A c \in S : Submittable(c)
           /\ queue'[q].status = "QUEUED" /\ queue'[q].records = S
           /\ \A p \in Queues \ {q} : queue'[p] = queue[p]
           /\ \A c \in S : cand'[c].state = "CONFIRMED" /\ cand'[c].queue = q
           /\ \A c \in Cands \ S : cand'[c] = cand[c]
           /\ UNCHANGED <<run, prep, replay, worker, promoted>>
<1>1. /\ queue'[q] = [NoQueue EXCEPT !.status = "QUEUED", !.records = S,
                                     !.target = t]
      /\ \A p \in Queues \ {q} : queue'[p] = queue[p]
  BY DEF Submit, Typed, TypeOK
<1>2. queue'[q].status = "QUEUED" /\ queue'[q].records = S
  BY <1>1 DEF NoQueue
<1>3. /\ \A c \in S : cand'[c].state = "CONFIRMED" /\ cand'[c].queue = q
      /\ \A c \in Cands \ S : cand'[c] = cand[c]
  <2>1. \A c \in Cands : cand[c] \in Row
    BY DEF Typed, TypeOK
  <2> QED
    BY <2>1 DEF Submit, Row
<1> QED
  BY <1>1, <1>2, <1>3 DEF Submit

\* The DELETE of staged rows takes all of them.
LEMMA DiscardEffect ==
    ASSUME Typed, cand' = Discarded
    PROVE  \A c \in Cands :
              /\ cand'[c].queue = cand[c].queue
              /\ cand'[c].state = IF cand[c].state = "unstaged"
                                  THEN "unstaged" ELSE "gone"
BY DEF Discarded, Row, Typed, TypeOK

\* What every other action does to a candidate and its queue.
LEMMA CandEffect ==
    ASSUME Typed, NEW c \in Cands
    PROVE  /\ StageNew(c) =>
                 /\ cand[c].state = "unstaged" /\ cand'[c].state = "PENDING"
                 /\ cand'[c].queue = cand[c].queue
                 /\ \A d \in Cands \ {c} : cand'[d] = cand[d]
           /\ Confirm(c) =>
                 /\ cand[c].state = "PENDING" /\ cand'[c].state = "CONFIRMED"
                 /\ cand'[c].queue = cand[c].queue
                 /\ \A d \in Cands \ {c} : cand'[d] = cand[d]
           /\ Reject(c) =>
                 /\ Staged(c) /\ cand'[c].state = "gone"
                 /\ cand'[c].queue = cand[c].queue
                 /\ \A d \in Cands \ {c} : cand'[d] = cand[d]
BY DEF StageNew, Confirm, Reject, Row, Typed, TypeOK

-----------------------------------------------------------------------------
\* What keeps queues apart while no lease was overrun and no delivery was
\* dead-lettered, and what they promise if, moreover, nothing is staged twice.

LeaseHonoured == NoFault("overrun") /\ NoFault("dead")

Undisturbed == \A k \in FaultKinds \ {"crash"} : NoFault(k)

Busy(w) == worker[w].step /= "idle"

StatusOf(w) == queue[worker[w].queue].status

StagedOnce == prep /= "stopped" /\ replay = {}

\* A queue at work is leased, and to one worker, until it is deleted; the
\* worker takes it to be PROCESSING.
LeaseHeld ==
    \A w \in Workers : Busy(w) /\ StatusOf(w) /= "deleted" =>
      /\ StatusOf(w) = "PROCESSING"
      /\ queue[worker[w].queue].leased = TRUE
      /\ worker[w].step /= "start" => worker[w].base = "PROCESSING"
      /\ \A v \in Workers \ {w} : Busy(v) => worker[v].queue /= worker[w].queue

\* The records of a queue that may still be promoted are its own.
QueueOwns ==
    \A q \in Queues : queue[q].status \in {"QUEUED", "PROCESSING", "COMPLETED"} =>
      \A c \in queue[q].records :
        /\ cand[c].queue = q
        /\ cand[c].state \in {"CONFIRMED", "PROCESSED", "gone"}

ProcessedByQueue ==
    \A c \in Cands : cand[c].state = "PROCESSED" =>
      /\ cand[c].queue \in Queues
      /\ queue[cand[c].queue].status \notin {"none", "deleted"}
      /\ promoted[c] = <<queue[cand[c].queue].target>>

\* A worker has promoted what it has neither left to do nor counted an error;
\* of a deleted queue nothing is left to promote.
Left(w) == worker[w].todo \cup worker[w].hand \cup worker[w].errors

Progress ==
    \A w \in Workers : worker[w].step \in {"begin", "next", "write"} =>
      /\ StatusOf(w) /= "deleted" =>
           /\ Left(w) \subseteq queue[worker[w].queue].records
           /\ \A c \in queue[worker[w].queue].records \ Left(w) :
                 promoted[c] = <<queue[worker[w].queue].target>>
      /\ StatusOf(w) = "deleted" =>
           \A c \in worker[w].todo \cup worker[w].hand : cand[c].state = "gone"

AskedFor ==
    \A q \in Queues : queue[q].status = "COMPLETED" =>
      \A c \in queue[q].records : promoted[c] = <<queue[q].target>>

Fenced ==
    /\ StagedOnce /\ LeaseHeld /\ QueueOwns /\ ProcessedByQueue /\ Progress
    /\ AskedFor

\* The first flush, by the one worker of a queue at work: it is on its way.
LEMMA BeginEffect ==
    ASSUME Typed, NEW w \in Workers, Begin(w),
           LeaseHeld
    PROVE  LET q == worker[w].queue IN
           /\ worker[w].step = "begin" /\ q \in Queues
           /\ queue[q].status = "PROCESSING" /\ worker[w].base = "PROCESSING"
           /\ Moved(w, "next", q, worker[w].todo, worker[w].hand,
                    worker[w].errors)
           /\ worker'[w].base = "PROCESSING"
           /\ queue' = queue
           /\ UNCHANGED <<prep, replay, cand, promoted>>
<1> DEFINE q == worker[w].queue
<1>1. worker[w].step = "begin" /\ queue[q].status /= "deleted"
  BY DEF Begin, BeginAccepted
<1>2. queue[q].status = "PROCESSING" /\ worker[w].base = "PROCESSING"
  BY <1>1 DEF LeaseHeld, Busy, StatusOf
<1>3. /\ q \in Queues
      /\ queue' = [queue EXCEPT ![q] = [queue[q] EXCEPT !.status = "PROCESSING"]]
      /\ worker'[w] = [worker[w] EXCEPT !.step = "next", !.base = "PROCESSING",
                                        !.finishes = queue[q].finishes]
  BY <1>2, BeginChanges
<1>4. \A v \in Workers \ {w} : worker'[v] = worker[v]
  <2> TAKE v \in Workers \ {w}
  <2>1. worker[v].step = "begin" => worker[v].queue /= q
    BY <1>1, <1>2 DEF LeaseHeld, Busy, StatusOf
  <2> QED
    BY <2>1, BeginChanges
<1>5. Moved(w, "next", q, worker[w].todo, worker[w].hand, worker[w].errors)
  BY <1>3, <1>4 DEF Moved, Worker, Typed, TypeOK
<1>6. worker'[w].base = "PROCESSING"
  BY <1>3 DEF Worker, Typed, TypeOK
<1>7. queue' = queue
  <2>1. queue[q] \in Queue /\ queue \in [Queues -> Queue]
    BY <1>3 DEF Typed, TypeOK
  <2>2. [queue[q] EXCEPT !.status = "PROCESSING"] = queue[q]
    BY <1>2, <2>1 DEF Queue
  <2> QED
    BY <1>3, <2>1, <2>2
<1> QED
  BY <1>1, <1>2, <1>3, <1>5, <1>6, <1>7 DEF Begin

\* No queue exists when the run is created.
LEMMA InitFenced == Init => Fenced
<1> SUFFICES ASSUME Init PROVE Fenced
  OBVIOUS
<1>1. \A w \in Workers : worker[w].step = "idle"
  BY DEF Init, Free
<1>2. \A q \in Queues : queue[q].status = "none"
  BY DEF Init, NoQueue
<1> QED
  BY <1>1, <1>2
     DEF Init, Fenced, StagedOnce, LeaseHeld, QueueOwns, ProcessedByQueue,
         Progress, AskedFor, Busy, StatusOf

\* A fault that has not happened after a step did not happen before or in it.
LEMMA NoFaultBefore ==
    ASSUME Typed, [Next]_vars, NEW k \in FaultKinds, NoFault(k)'
    PROVE  NoFault(k) /\ ~Fault(k)
<1>1. ASSUME NEW j \in FaultKinds, Fault(j)
      PROVE  /\ faults'[j] = faults[j] + 1 /\ faults[j] \in Nat
             /\ \A i \in FaultKinds \ {j} : faults'[i] = faults[i]
  BY <1>1 DEF Fault, Typed, TypeOK
<1>2. \/ faults' = faults
      \/ \E j \in FaultKinds : Fault(j)
  BY DEF FaultKinds, Next, Preprocess, Reviewer, Work, StageNew, Restage,
     LateCheckpoint, Preprocessed, StopPreprocessing, Resume, Requeue, Confirm,
     Reject, ReviewEntity, Submit, Finalize, Cancel, Start, Begin,
     BeginRefused, Look, Promote, RefuseRecord, Finish, FinishRefused,
     Heartbeat, Crash, Claim, LeaseExpires, Overrun, Recover, DeadLetter, vars
<1>3. ~Fault(k)
  BY <1>1 DEF NoFault
<1>4. faults[k] \in Nat
  BY DEF Typed, TypeOK
<1> QED
  BY <1>1, <1>2, <1>3, <1>4 DEF NoFault

\* Neither leases nor deliveries failed before, nor do they in this step.
LEMMA StaysHonoured ==
    ASSUME Typed, [Next]_vars, LeaseHonoured'
    PROVE  /\ LeaseHonoured
           /\ \A q \in Queues : ~Overrun(q) /\ ~DeadLetter(q)
BY NoFaultBefore DEF LeaseHonoured, FaultKinds, Overrun, DeadLetter

\* Of the faults, only a crash leaves a run undisturbed.
LEMMA StaysUndisturbed ==
    ASSUME Typed, [Next]_vars, Undisturbed'
    PROVE  /\ Undisturbed /\ LeaseHonoured'
           /\ ~StopPreprocessing /\ ~Requeue
           /\ \A c \in Cands : ~LateCheckpoint(c)
           /\ \A q \in Queues : ~Overrun(q) /\ ~DeadLetter(q)
<1>1. \A k \in FaultKinds \ {"crash"} : NoFault(k)'
  BY DEF Undisturbed
<1>2. \A k \in FaultKinds \ {"crash"} : NoFault(k) /\ ~Fault(k)
  BY <1>1, NoFaultBefore
<1> QED
  BY <1>1, <1>2 DEF Undisturbed, LeaseHonoured, StopPreprocessing, Requeue,
     LateCheckpoint, Overrun, DeadLetter, FaultKinds

\* While no lease is overrun a queue has one worker.
LEMMA NextLeaseHeld ==
    ASSUME ReviewInv, LeaseHeld, [Next]_vars, LeaseHonoured'
    PROVE  LeaseHeld'
<1> USE DEF LeaseHeld, Busy, StatusOf
<1> Typed
  BY DEF ReviewInv
<1> \A q \in Queues : queue[q].records \subseteq Cands
  BY RecordsAreCands
<1>1. ASSUME NEW c \in Cands, StageNew(c) PROVE LeaseHeld'
  BY <1>1 DEF StageNew
<1>2. ASSUME NEW c \in Cands, Restage(c) PROVE LeaseHeld'
  BY <1>2 DEF Restage
<1>3. CASE Preprocessed
  BY <1>3 DEF Preprocessed
<1>4. CASE StopPreprocessing
  BY <1>4 DEF StopPreprocessing
<1>5. CASE Resume
  BY <1>5 DEF Resume
<1>6. ASSUME NEW c \in Cands, Confirm(c) PROVE LeaseHeld'
  BY <1>6 DEF Confirm
<1>7. ASSUME NEW c \in Cands, Reject(c) PROVE LeaseHeld'
  BY <1>7 DEF Reject
<1>8. ASSUME NEW c \in Cands, ReviewEntity(c) PROVE LeaseHeld'
  BY <1>8 DEF ReviewEntity
<1>9. ASSUME NEW q \in Queues, NEW S \in SUBSET Cands, NEW t \in Targets,
             Submit(q, S, t)
      PROVE  LeaseHeld'
  BY <1>9, SubmitEffect, WorkerQueue
<1>10. CASE Finalize
  BY <1>10, WorkerQueue DEF Finalize, NoQueue, Typed, TypeOK
<1>11. CASE Cancel
  BY <1>11 DEF Cancel
<1>12. ASSUME NEW w \in Workers, Start(w) PROVE LeaseHeld'
  BY <1>12, StartEffect, WorkerQueue DEF Moved, Freed, QueueSet
<1>13. ASSUME NEW w \in Workers, NEW c \in Cands, Look(w, c) PROVE LeaseHeld'
  BY <1>13, LookEffect, BaseKept DEF Moved
<1>14. ASSUME NEW w \in Workers, NEW c \in Cands,
             Promote(w, c)
      PROVE  LeaseHeld'
  BY <1>14, PromoteEffect, BaseKept DEF Moved
<1>15. ASSUME NEW w \in Workers, NEW c \in Cands,
             RefuseRecord(w, c)
      PROVE  LeaseHeld'
  BY <1>15, RefuseEffect, BaseKept DEF Moved
<1>16. ASSUME NEW w \in Workers, Finish(w) PROVE LeaseHeld'
  <2> DEFINE q == worker[w].queue
  <2>1. /\ worker[w].step = "next" /\ q \in Queues /\ Freed(w)
        /\ \A p \in Queues \ {q} : queue'[p] = queue[p]
        /\ queue[q].status = worker[w].base
    BY <1>16, FinishEffect DEF QueueSet
  <2>2. queue[q].status /= "deleted"
    BY <2>1 DEF Typed, QueueHeld
  <2>3. \A v \in Workers \ {w} : Busy(v) =>
           worker[v].queue \in Queues \ {q} /\ worker'[v] = worker[v]
    BY <2>1, <2>2, WorkerQueue DEF Freed, Moved
  <2>4. worker'[w].step = "idle"
    BY <2>1 DEF Freed, Moved
  <2>5. \A v \in Workers \ {w} : worker'[v] = worker[v]
    BY <2>1 DEF Freed, Moved
  <2> QED
    BY <2>1, <2>3, <2>4, <2>5
<1>17. ASSUME NEW w \in Workers, FinishRefused(w) PROVE LeaseHeld'
  BY <1>17, Frees DEF FinishRefused, Moved, Freed, Typed
<1>18. ASSUME NEW w \in Workers, Heartbeat(w) PROVE LeaseHeld'
  BY <1>18 DEF Heartbeat
<1>19. ASSUME NEW w \in Workers, Crash(w) PROVE LeaseHeld'
  BY <1>19, Frees DEF Crash, Moved, Freed, Typed
<1>20. ASSUME NEW w \in Workers, NEW q \in Queues,
             Claim(w, q)
      PROVE  LeaseHeld'
  <2>1. \A v \in Workers : Busy(v) => worker[v].queue /= q
    BY <1>20, ClaimEffect
  <2>2. queue'[q].status = "PROCESSING" /\ queue'[q].leased = TRUE
    BY <1>20, ClaimEffect DEF QueueSet
  <2>3. worker'[w].queue = q /\ worker'[w].step = "start"
    BY <1>20, ClaimEffect DEF Moved
  <2>4. \A v \in Workers \ {w} : worker'[v] = worker[v]
    BY <1>20, ClaimEffect DEF Moved
  <2>5. \A p \in Queues \ {q} : queue'[p] = queue[p]
    BY <1>20, ClaimEffect DEF QueueSet
  <2> QED
    BY <2>1, <2>2, <2>3, <2>4, <2>5, WorkerQueue
<1>21. ASSUME NEW q \in Queues, LeaseExpires(q) PROVE LeaseHeld'
  BY <1>21, WorkerQueue DEF LeaseExpires, Typed, TypeOK
<1>22. ASSUME NEW q \in Queues, Overrun(q) PROVE LeaseHeld'
  BY <1>22, StaysHonoured
<1>23. ASSUME NEW q \in Queues, Recover(q) PROVE LeaseHeld'
  BY <1>23, WorkerQueue DEF Recover, Typed, TypeOK
<1>24. ASSUME NEW q \in Queues, DeadLetter(q) PROVE LeaseHeld'
  BY <1>24, StaysHonoured
<1>25. CASE UNCHANGED vars
  BY <1>25 DEF vars
<1>26. ASSUME NEW c \in Cands, LateCheckpoint(c) PROVE LeaseHeld'
  BY <1>26 DEF LateCheckpoint
<1>27. CASE Requeue
  BY <1>27 DEF Requeue
<1>28. ASSUME NEW w \in Workers, Begin(w) PROVE LeaseHeld'
  <2>1. /\ worker[w].step = "begin" /\ worker'[w].step = "next"
        /\ worker'[w].queue = worker[w].queue
        /\ worker[w].base = "PROCESSING" /\ worker'[w].base = "PROCESSING"
        /\ \A v \in Workers \ {w} : worker'[v] = worker[v]
        /\ queue' = queue
    BY <1>28, BeginEffect DEF Moved
  <2> QED
    BY <2>1
<1>29. ASSUME NEW w \in Workers, BeginRefused(w) PROVE LeaseHeld'
  BY <1>29, Frees DEF BeginRefused, Moved, Freed, Typed
<1> QED
  BY <1>1, <1>2, <1>3, <1>4, <1>5, <1>6, <1>7, <1>8, <1>9, <1>10, <1>11,
     <1>12, <1>13, <1>14, <1>15, <1>16, <1>17, <1>18, <1>19, <1>20,
     <1>21, <1>22, <1>23, <1>24, <1>25,
     <1>26, <1>27, <1>28, <1>29
     DEF Next, Preprocess, Reviewer, Work

\* The worker that finishes a queue is the one that has its lease.
LEMMA OneFinishes ==
    ASSUME Typed, LeaseHeld, NEW w \in Workers, Finish(w)
    PROVE  queue[worker[w].queue].status = "PROCESSING"
<1>1. worker[w].step = "next" /\ queue[worker[w].queue].status = worker[w].base
  BY FinishEffect
<1>2. worker[w].base /= "deleted"
  BY DEF Typed, QueueHeld
<1> QED
  BY <1>1, <1>2 DEF LeaseHeld, Busy, StatusOf

\* A record that is submitted belongs to the one queue it is in.
LEMMA NextQueueOwns ==
    ASSUME ReviewInv, Fenced, [Next]_vars, Undisturbed'
    PROVE  QueueOwns'
<1> USE DEF Fenced, QueueOwns
<1> Typed
  BY DEF ReviewInv
<1> \A q \in Queues : queue[q].records \subseteq Cands
  BY RecordsAreCands
<1>1. ASSUME NEW c \in Cands, StageNew(c) PROVE QueueOwns'
  <2>1. /\ cand[c].state = "unstaged" /\ cand'[c].state = "PENDING"
        /\ cand'[c].queue = cand[c].queue
        /\ \A d \in Cands \ {c} : cand'[d] = cand[d]
        /\ UNCHANGED <<queue, promoted>>
    BY <1>1, CandEffect DEF StageNew, Staged
  <2> QED
    BY <2>1
<1>2. ASSUME NEW c \in Cands, Restage(c) PROVE QueueOwns'
  BY <1>2 DEF Restage, Fenced, StagedOnce
<1>3. CASE Preprocessed
  BY <1>3 DEF Preprocessed
<1>4. CASE StopPreprocessing
  BY <1>4, StaysUndisturbed
<1>5. CASE Resume
  BY <1>5 DEF Resume, Fenced, StagedOnce
<1>6. ASSUME NEW c \in Cands, Confirm(c) PROVE QueueOwns'
  <2>1. /\ cand[c].state = "PENDING" /\ cand'[c].state = "CONFIRMED"
        /\ cand'[c].queue = cand[c].queue
        /\ \A d \in Cands \ {c} : cand'[d] = cand[d]
        /\ UNCHANGED <<queue, promoted>>
    BY <1>6, CandEffect DEF Confirm, Staged
  <2> QED
    BY <2>1
<1>7. ASSUME NEW c \in Cands, Reject(c) PROVE QueueOwns'
  <2>1. /\ cand[c].state /= "unstaged" /\ cand'[c].state = "gone"
        /\ cand'[c].queue = cand[c].queue
        /\ \A d \in Cands \ {c} : cand'[d] = cand[d]
        /\ UNCHANGED <<queue, promoted>>
    BY <1>7, CandEffect DEF Reject, Staged
  <2> QED
    BY <2>1
<1>8. ASSUME NEW c \in Cands, ReviewEntity(c) PROVE QueueOwns'
  BY <1>8 DEF ReviewEntity
<1>9. ASSUME NEW q \in Queues, NEW S \in SUBSET Cands, NEW t \in Targets,
             Submit(q, S, t)
      PROVE  QueueOwns'
  <2>1. \A c \in S : cand[c].queue \in Queues =>
                        queue[cand[c].queue].status = "FAILED"
    <3>1. \A c \in S : Submittable(c)
      BY <1>9, SubmitEffect
    <3>2. 0 \notin Queues
      BY QueuesAssumption DEF Queues
    <3> QED
      BY <3>1, <3>2 DEF Submittable
  <2>2. /\ queue'[q].records = S
        /\ \A p \in Queues \ {q} : queue'[p] = queue[p]
        /\ \A c \in S : cand'[c].state = "CONFIRMED" /\ cand'[c].queue = q
        /\ \A c \in Cands \ S : cand'[c] = cand[c]
    BY <1>9, SubmitEffect
  <2>3. ASSUME NEW p \in Queues \ {q}, NEW c \in queue[p].records, c \in S
        PROVE  queue[p].status \notin {"QUEUED", "PROCESSING", "COMPLETED"}
    BY <2>1, <2>3
  <2> QED
    BY <2>2, <2>3
<1>10. CASE Finalize
  BY <1>10 DEF Finalize, NoQueue, Typed, TypeOK
<1>11. CASE Cancel
  BY <1>11, DiscardEffect DEF Cancel
<1>12. ASSUME NEW w \in Workers, Start(w) PROVE QueueOwns'
  BY <1>12 DEF Start
<1>13. ASSUME NEW w \in Workers, NEW c \in Cands, Look(w, c) PROVE QueueOwns'
  BY <1>13 DEF Look
<1>14. ASSUME NEW w \in Workers, NEW c \in Cands,
             Promote(w, c)
      PROVE  QueueOwns'
  BY <1>14, PromoteEffect
<1>15. ASSUME NEW w \in Workers, NEW c \in Cands,
             RefuseRecord(w, c)
      PROVE  QueueOwns'
  BY <1>15 DEF RefuseRecord
<1>16. ASSUME NEW w \in Workers, Finish(w) PROVE QueueOwns'
  BY <1>16, FinishEffect, OneFinishes DEF QueueSet
<1>17. ASSUME NEW w \in Workers, FinishRefused(w) PROVE QueueOwns'
  BY <1>17 DEF FinishRefused
<1>18. ASSUME NEW w \in Workers, Heartbeat(w) PROVE QueueOwns'
  BY <1>18, WorkerQueue DEF Heartbeat, Typed, TypeOK, Queue
<1>19. ASSUME NEW w \in Workers, Crash(w) PROVE QueueOwns'
  BY <1>19 DEF Crash
<1>20. ASSUME NEW w \in Workers, NEW q \in Queues,
             Claim(w, q)
      PROVE  QueueOwns'
  <2>1. /\ QueueSet(q, "PROCESSING") /\ UNCHANGED <<cand, promoted>>
        /\ queue[q].status \in {"QUEUED", "PROCESSING"}
    BY <1>20, ClaimEffect
  <2> QED
    BY <2>1 DEF QueueSet
<1>21. ASSUME NEW q \in Queues, LeaseExpires(q) PROVE QueueOwns'
  BY <1>21 DEF LeaseExpires, Typed, TypeOK, Queue
<1>22. ASSUME NEW q \in Queues, Overrun(q) PROVE QueueOwns'
  BY <1>22, StaysUndisturbed
<1>23. ASSUME NEW q \in Queues, Recover(q) PROVE QueueOwns'
  BY <1>23 DEF Recover, Typed, TypeOK, Queue
<1>24. ASSUME NEW q \in Queues, DeadLetter(q) PROVE QueueOwns'
  BY <1>24, StaysUndisturbed
<1>25. CASE UNCHANGED vars
  BY <1>25 DEF vars
<1>26. ASSUME NEW c \in Cands, LateCheckpoint(c) PROVE QueueOwns'
  BY <1>26, StaysUndisturbed
<1>27. CASE Requeue
  BY <1>27, StaysUndisturbed
<1>28. ASSUME NEW w \in Workers, Begin(w) PROVE QueueOwns'
  BY <1>28, BeginEffect
<1>29. ASSUME NEW w \in Workers, BeginRefused(w) PROVE QueueOwns'
  BY <1>29 DEF BeginRefused
<1> QED
  BY <1>1, <1>2, <1>3, <1>4, <1>5, <1>6, <1>7, <1>8, <1>9, <1>10, <1>11,
     <1>12, <1>13, <1>14, <1>15, <1>16, <1>17, <1>18, <1>19, <1>20,
     <1>21, <1>22, <1>23, <1>24, <1>25,
     <1>26, <1>27, <1>28, <1>29
     DEF Next, Preprocess, Reviewer, Work

\* A PROCESSED record was promoted by the queue it is assigned to.
LEMMA NextProcessedByQueue ==
    ASSUME ReviewInv, Fenced, [Next]_vars, Undisturbed'
    PROVE  ProcessedByQueue'
<1> USE DEF Fenced, ProcessedByQueue
<1> Typed
  BY DEF ReviewInv
<1> \A q \in Queues : queue[q].records \subseteq Cands
  BY RecordsAreCands
<1>1. ASSUME NEW c \in Cands, StageNew(c) PROVE ProcessedByQueue'
  BY <1>1, CandEffect DEF StageNew
<1>2. ASSUME NEW c \in Cands, Restage(c) PROVE ProcessedByQueue'
  BY <1>2 DEF Restage, Fenced, StagedOnce
<1>3. CASE Preprocessed
  BY <1>3 DEF Preprocessed
<1>4. CASE StopPreprocessing
  BY <1>4, StaysUndisturbed
<1>5. CASE Resume
  BY <1>5 DEF Resume, Fenced, StagedOnce
<1>6. ASSUME NEW c \in Cands, Confirm(c) PROVE ProcessedByQueue'
  BY <1>6, CandEffect DEF Confirm
<1>7. ASSUME NEW c \in Cands, Reject(c) PROVE ProcessedByQueue'
  BY <1>7, CandEffect DEF Reject
<1>8. ASSUME NEW c \in Cands, ReviewEntity(c) PROVE ProcessedByQueue'
  BY <1>8 DEF ReviewEntity
<1>9. ASSUME NEW q \in Queues, NEW S \in SUBSET Cands, NEW t \in Targets,
             Submit(q, S, t)
      PROVE  ProcessedByQueue'
  <2>1. queue[q].status = "none"
    BY <1>9, SubmitEffect
  <2>2. \A p \in Queues \ {q} : queue'[p] = queue[p]
    BY <1>9, SubmitEffect
  <2>3. \A c \in S : cand'[c].state = "CONFIRMED"
    BY <1>9, SubmitEffect
  <2>4. \A c \in Cands \ S : cand'[c] = cand[c]
    BY <1>9, SubmitEffect
  <2>5. promoted' = promoted
    BY <1>9 DEF Submit
  <2> QED
    BY <2>1, <2>2, <2>3, <2>4, <2>5
<1>10. CASE Finalize
  <2>1. \A c \in Cands : cand'[c].state /= "PROCESSED"
    BY <1>10, DiscardEffect DEF Finalize
  <2> QED
    BY <2>1
<1>11. CASE Cancel
  <2>1. \A c \in Cands : cand'[c].state /= "PROCESSED"
    BY <1>11, DiscardEffect DEF Cancel
  <2> QED
    BY <2>1
<1>12. ASSUME NEW w \in Workers, Start(w) PROVE ProcessedByQueue'
  BY <1>12 DEF Start
<1>13. ASSUME NEW w \in Workers, NEW c \in Cands,
             Look(w, c)
      PROVE  ProcessedByQueue'
  BY <1>13 DEF Look
<1>14. ASSUME NEW w \in Workers, NEW c \in Cands,
             Promote(w, c)
      PROVE  ProcessedByQueue'
  <2> DEFINE q == worker[w].queue
  <2>1. queue[q].status = "PROCESSING" /\ cand[c].queue = q
    BY <1>14, PromoteEffect
       DEF LeaseHeld, Busy, StatusOf, Progress, Left, QueueOwns
  <2> QED
    BY <1>14, <2>1, PromoteEffect
<1>15. ASSUME NEW w \in Workers, NEW c \in Cands,
             RefuseRecord(w, c)
      PROVE  ProcessedByQueue'
  BY <1>15 DEF RefuseRecord
<1>16. ASSUME NEW w \in Workers, Finish(w) PROVE ProcessedByQueue'
  BY <1>16, FinishEffect DEF QueueSet
<1>17. ASSUME NEW w \in Workers, FinishRefused(w) PROVE ProcessedByQueue'
  BY <1>17 DEF FinishRefused
<1>18. ASSUME NEW w \in Workers, Heartbeat(w) PROVE ProcessedByQueue'
  BY <1>18, WorkerQueue DEF Heartbeat, Typed, TypeOK, Queue
<1>19. ASSUME NEW w \in Workers, Crash(w) PROVE ProcessedByQueue'
  BY <1>19 DEF Crash
<1>20. ASSUME NEW w \in Workers, NEW q \in Queues,
             Claim(w, q)
      PROVE  ProcessedByQueue'
  <2>1. /\ QueueSet(q, "PROCESSING") /\ UNCHANGED <<cand, promoted>>
        /\ queue[q].status \in {"QUEUED", "PROCESSING"}
    BY <1>20, ClaimEffect
  <2> QED
    BY <2>1 DEF QueueSet
<1>21. ASSUME NEW q \in Queues, LeaseExpires(q) PROVE ProcessedByQueue'
  BY <1>21 DEF LeaseExpires, Typed, TypeOK, Queue
<1>22. ASSUME NEW q \in Queues, Overrun(q) PROVE ProcessedByQueue'
  BY <1>22, StaysUndisturbed
<1>23. ASSUME NEW q \in Queues, Recover(q) PROVE ProcessedByQueue'
  BY <1>23 DEF Recover, Typed, TypeOK, Queue
<1>24. ASSUME NEW q \in Queues, DeadLetter(q) PROVE ProcessedByQueue'
  BY <1>24, StaysUndisturbed
<1>25. CASE UNCHANGED vars
  BY <1>25 DEF vars
<1>26. ASSUME NEW c \in Cands, LateCheckpoint(c) PROVE ProcessedByQueue'
  BY <1>26, StaysUndisturbed
<1>27. CASE Requeue
  BY <1>27, StaysUndisturbed
<1>28. ASSUME NEW w \in Workers, Begin(w) PROVE ProcessedByQueue'
  BY <1>28, BeginEffect
<1>29. ASSUME NEW w \in Workers, BeginRefused(w) PROVE ProcessedByQueue'
  BY <1>29 DEF BeginRefused
<1> QED
  BY <1>1, <1>2, <1>3, <1>4, <1>5, <1>6, <1>7, <1>8, <1>9, <1>10, <1>11,
     <1>12, <1>13, <1>14, <1>15, <1>16, <1>17, <1>18, <1>19, <1>20,
     <1>21, <1>22, <1>23, <1>24, <1>25,
     <1>26, <1>27, <1>28, <1>29
     DEF Next, Preprocess, Reviewer, Work

\* What is promoted was promoted to the target of its queue.
LEMMA NextAskedFor ==
    ASSUME ReviewInv, Fenced, [Next]_vars, Undisturbed'
    PROVE  AskedFor'
<1> USE DEF Fenced, AskedFor
<1> Typed
  BY DEF ReviewInv
<1> \A q \in Queues : queue[q].records \subseteq Cands
  BY RecordsAreCands
<1>1. ASSUME NEW c \in Cands, StageNew(c) PROVE AskedFor'
  BY <1>1 DEF StageNew
<1>2. ASSUME NEW c \in Cands, Restage(c) PROVE AskedFor'
  BY <1>2 DEF Restage, Fenced, StagedOnce
<1>3. CASE Preprocessed
  BY <1>3 DEF Preprocessed
<1>4. CASE StopPreprocessing
  BY <1>4, StaysUndisturbed
<1>5. CASE Resume
  BY <1>5 DEF Resume, Fenced, StagedOnce
<1>6. ASSUME NEW c \in Cands, Confirm(c) PROVE AskedFor'
  BY <1>6 DEF Confirm
<1>7. ASSUME NEW c \in Cands, Reject(c) PROVE AskedFor'
  BY <1>7 DEF Reject
<1>8. ASSUME NEW c \in Cands, ReviewEntity(c) PROVE AskedFor'
  BY <1>8 DEF ReviewEntity
<1>9. ASSUME NEW q \in Queues, NEW S \in SUBSET Cands, NEW t \in Targets,
             Submit(q, S, t)
      PROVE  AskedFor'
  BY <1>9, SubmitEffect
<1>10. CASE Finalize
  BY <1>10 DEF Finalize, NoQueue, Typed, TypeOK
<1>11. CASE Cancel
  BY <1>11 DEF Cancel
<1>12. ASSUME NEW w \in Workers, Start(w) PROVE AskedFor'
  BY <1>12 DEF Start
<1>13. ASSUME NEW w \in Workers, NEW c \in Cands, Look(w, c) PROVE AskedFor'
  BY <1>13 DEF Look
<1>14. ASSUME NEW w \in Workers, NEW c \in Cands,
             Promote(w, c)
      PROVE  AskedFor'
  <2>1. \A q \in Queues : queue[q].status = "COMPLETED" =>
           c \notin queue[q].records
    BY <1>14, PromoteEffect
  <2> QED
    BY <1>14, <2>1, PromoteEffect
<1>15. ASSUME NEW w \in Workers, NEW c \in Cands,
             RefuseRecord(w, c)
      PROVE  AskedFor'
  BY <1>15 DEF RefuseRecord
<1>16. ASSUME NEW w \in Workers, Finish(w) PROVE AskedFor'
  <2> DEFINE q == worker[w].queue
  <2>1. ASSUME worker[w].errors = {}, NEW c \in queue[q].records
        PROVE  promoted[c] = <<queue[q].target>>
    <3>1. Left(w) = {}
      BY <1>16, <2>1, FinishEffect DEF Left
    <3>2. queue[q].status = "PROCESSING" /\ worker[w].step = "next"
      BY <1>16, FinishEffect, OneFinishes
    <3> QED
      BY <2>1, <3>1, <3>2 DEF Progress, StatusOf
  <2> QED
    BY <1>16, <2>1, FinishEffect DEF QueueSet
<1>17. ASSUME NEW w \in Workers, FinishRefused(w) PROVE AskedFor'
  BY <1>17 DEF FinishRefused
<1>18. ASSUME NEW w \in Workers, Heartbeat(w) PROVE AskedFor'
  BY <1>18, WorkerQueue DEF Heartbeat, Typed, TypeOK, Queue
<1>19. ASSUME NEW w \in Workers, Crash(w) PROVE AskedFor'
  BY <1>19 DEF Crash
<1>20. ASSUME NEW w \in Workers, NEW q \in Queues, Claim(w, q) PROVE AskedFor'
  <2>1. /\ QueueSet(q, "PROCESSING") /\ UNCHANGED <<cand, promoted>>
        /\ queue[q].status \in {"QUEUED", "PROCESSING"}
    BY <1>20, ClaimEffect
  <2> QED
    BY <2>1 DEF QueueSet
<1>21. ASSUME NEW q \in Queues, LeaseExpires(q) PROVE AskedFor'
  BY <1>21 DEF LeaseExpires, Typed, TypeOK, Queue
<1>22. ASSUME NEW q \in Queues, Overrun(q) PROVE AskedFor'
  BY <1>22, StaysUndisturbed
<1>23. ASSUME NEW q \in Queues, Recover(q) PROVE AskedFor'
  BY <1>23 DEF Recover, Typed, TypeOK, Queue
<1>24. ASSUME NEW q \in Queues, DeadLetter(q) PROVE AskedFor'
  BY <1>24, StaysUndisturbed
<1>25. CASE UNCHANGED vars
  BY <1>25 DEF vars
<1>26. ASSUME NEW c \in Cands, LateCheckpoint(c) PROVE AskedFor'
  BY <1>26, StaysUndisturbed
<1>27. CASE Requeue
  BY <1>27, StaysUndisturbed
<1>28. ASSUME NEW w \in Workers, Begin(w) PROVE AskedFor'
  BY <1>28, BeginEffect
<1>29. ASSUME NEW w \in Workers, BeginRefused(w) PROVE AskedFor'
  BY <1>29 DEF BeginRefused
<1> QED
  BY <1>1, <1>2, <1>3, <1>4, <1>5, <1>6, <1>7, <1>8, <1>9, <1>10, <1>11,
     <1>12, <1>13, <1>14, <1>15, <1>16, <1>17, <1>18, <1>19, <1>20,
     <1>21, <1>22, <1>23, <1>24, <1>25,
     <1>26, <1>27, <1>28, <1>29
     DEF Next, Preprocess, Reviewer, Work

\* What a worker has passed it has promoted or reported.
LEMMA NextProgress ==
    ASSUME ReviewInv, Fenced, [Next]_vars, Undisturbed'
    PROVE  Progress'
<1> USE DEF Fenced, Progress, StatusOf
<1> Typed
  BY DEF ReviewInv
<1> \A q \in Queues : queue[q].records \subseteq Cands
  BY RecordsAreCands
<1>1. ASSUME NEW c \in Cands, StageNew(c) PROVE Progress'
  <2>1. /\ UNCHANGED <<worker, queue, promoted>>
        /\ \A d \in Cands : cand[d].state = "gone" => cand'[d].state = "gone"
    BY <1>1, CandEffect DEF StageNew, Staged
  <2>2. \A v \in Workers : worker[v].todo \cup worker[v].hand \subseteq Cands
    BY DEF Typed, TypeOK, Worker
  <2> QED
    BY <2>1, <2>2 DEF Left
<1>2. ASSUME NEW c \in Cands, Restage(c) PROVE Progress'
  BY <1>2 DEF Restage, Fenced, StagedOnce
<1>3. CASE Preprocessed
  BY <1>3 DEF Preprocessed, Left
<1>4. CASE StopPreprocessing
  BY <1>4, StaysUndisturbed
<1>5. CASE Resume
  BY <1>5 DEF Resume, Fenced, StagedOnce
<1>6. ASSUME NEW c \in Cands, Confirm(c) PROVE Progress'
  <2>1. /\ UNCHANGED <<worker, queue, promoted>>
        /\ \A d \in Cands : cand[d].state = "gone" => cand'[d].state = "gone"
    BY <1>6, CandEffect DEF Confirm, Staged
  <2>2. \A v \in Workers : worker[v].todo \cup worker[v].hand \subseteq Cands
    BY DEF Typed, TypeOK, Worker
  <2> QED
    BY <2>1, <2>2 DEF Left
<1>7. ASSUME NEW c \in Cands, Reject(c) PROVE Progress'
  <2>1. /\ UNCHANGED <<worker, queue, promoted>>
        /\ \A d \in Cands : cand[d].state = "gone" => cand'[d].state = "gone"
    BY <1>7, CandEffect DEF Reject, Staged
  <2>2. \A v \in Workers : worker[v].todo \cup worker[v].hand \subseteq Cands
    BY DEF Typed, TypeOK, Worker
  <2> QED
    BY <2>1, <2>2 DEF Left
<1>8. ASSUME NEW c \in Cands, ReviewEntity(c) PROVE Progress'
  BY <1>8 DEF ReviewEntity, Left
<1>9. ASSUME NEW q \in Queues, NEW S \in SUBSET Cands, NEW t \in Targets,
             Submit(q, S, t)
      PROVE  Progress'
  <2>1. /\ queue[q].status = "none"
        /\ \A p \in Queues \ {q} : queue'[p] = queue[p]
        /\ \A d \in Cands : cand[d].state = "gone" => cand'[d].state = "gone"
    BY <1>9, SubmitEffect DEF Submittable
  <2>2. UNCHANGED <<worker, promoted>>
    BY <1>9 DEF Submit
  <2>3. \A v \in Workers : worker[v].step \in {"begin", "next", "write"} =>
           worker[v].queue \in Queues \ {q}
    BY <2>1, WorkerQueue DEF LeaseHeld, Busy
  <2>4. \A v \in Workers : worker[v].todo \cup worker[v].hand \subseteq Cands
    BY DEF Typed, TypeOK, Worker
  <2> QED
    BY <2>1, <2>2, <2>3, <2>4 DEF Left
<1>10. CASE Finalize
  <2>1. UNCHANGED <<worker, promoted>>
    BY <1>10 DEF Finalize
  <2> SUFFICES ASSUME NEW v \in Workers,
                      worker[v].step \in {"begin", "next", "write"}
               PROVE  /\ queue'[worker[v].queue].status = "deleted"
                      /\ \A c \in worker[v].todo \cup worker[v].hand :
                            cand'[c].state = "gone"
    BY <2>1
  <2> DEFINE q == worker[v].queue
  <2>2. q \in Queues /\ queue[q].status \in {"PROCESSING", "deleted"}
    BY WorkerQueue DEF LeaseHeld, Busy
  <2>3. queue'[q].status = "deleted"
    BY <1>10, <2>2 DEF Finalize, NoQueue
  <2>4. worker[v].todo \cup worker[v].hand \subseteq Cands
    BY DEF Typed, TypeOK, Worker
  <2>5. \A c \in worker[v].todo \cup worker[v].hand : cand[c].state /= "unstaged"
    BY <2>2, <2>4 DEF QueueOwns, Left
  <2> QED
    BY <1>10, <2>3, <2>4, <2>5, DiscardEffect DEF Finalize
<1>11. CASE Cancel
  <2>1. UNCHANGED <<worker, queue, promoted>>
    BY <1>11 DEF Cancel
  <2>2. \A d \in Cands : cand[d].state = "gone" => cand'[d].state = "gone"
    BY <1>11, DiscardEffect DEF Cancel
  <2>3. \A v \in Workers : worker[v].todo \cup worker[v].hand \subseteq Cands
    BY DEF Typed, TypeOK, Worker
  <2> QED
    BY <2>1, <2>2, <2>3 DEF Left
<1>12. ASSUME NEW w \in Workers, Start(w) PROVE Progress'
  <2> DEFINE q == worker[w].queue
  <2>1. CASE Freed(w)
    BY <1>12, <2>1, StartEffect DEF Freed, Moved, Left
  <2>2. CASE /\ queue[q].status \notin {"deleted", "COMPLETED"}
             /\ Moved(w, "begin", q, queue[q].records, {}, {})
    BY <1>12, <2>2, StartEffect DEF Moved, Left
  <2> QED
    BY <1>12, <2>1, <2>2, StartEffect
<1>13. ASSUME NEW w \in Workers, NEW c \in Cands, Look(w, c) PROVE Progress'
  <2> DEFINE q    == worker[w].queue
             rest == worker[w].todo \ {c}
  <2>1. /\ worker[w].step = "next" /\ c \in worker[w].todo
        /\ q \in Queues /\ worker[w].hand = {}
        /\ UNCHANGED <<cand, queue, promoted>>
    BY <1>13, LookEffect
  <2>2. CASE \/ Moved(w, "write", q, rest, {c}, worker[w].errors)
             \/ Moved(w, "next", q, rest, {}, worker[w].errors \cup {c})
    BY <2>1, <2>2 DEF Moved, Left
  <2>3. CASE /\ cand[c].state = "PROCESSED"
             /\ Moved(w, "next", q, rest, {}, worker[w].errors)
    <3>1. queue[q].status /= "deleted" => promoted[c] = <<queue[q].target>>
      BY <2>1, <2>3 DEF LeaseHeld, Busy, QueueOwns, ProcessedByQueue, Left
    <3> QED
      BY <2>1, <2>3, <3>1 DEF Moved, Left
  <2> QED
    BY <1>13, <2>2, <2>3, LookEffect
<1>14. ASSUME NEW w \in Workers, NEW c \in Cands,
             Promote(w, c)
      PROVE  Progress'
  <2> DEFINE q == worker[w].queue
  <2>1. /\ worker[w].step = "write" /\ worker[w].hand = {c} /\ q \in Queues
        /\ cand[c].state = "CONFIRMED" /\ promoted[c] = <<>>
        /\ Moved(w, "next", q, worker[w].todo, {}, worker[w].errors)
    BY <1>14, PromoteEffect
  <2>2. /\ \A d \in Cands \ {c} : cand'[d] = cand[d]
        /\ \A d \in Cands \ {c} : promoted'[d] = promoted[d]
        /\ promoted'[c] = <<queue[q].target>>
        /\ queue' = queue
    BY <1>14, PromoteEffect
  <2>3. \A v \in Workers : /\ worker[v].todo \cup worker[v].hand \subseteq Cands
    BY DEF Typed, TypeOK, Worker
  <2>4. ASSUME NEW v \in Workers \ {w}, worker[v].step \in {"next", "write"},
               queue[worker[v].queue].status /= "deleted",
               c \in queue[worker[v].queue].records
        PROVE  c \in Left(v)
    BY <2>1, <2>4
  <2> QED
    BY <2>1, <2>2, <2>3, <2>4, WorkerQueue DEF Moved, Left
<1>15. ASSUME NEW w \in Workers, NEW c \in Cands,
             RefuseRecord(w, c)
      PROVE  Progress'
  <2> DEFINE q == worker[w].queue
  <2>1. /\ worker[w].step = "write" /\ worker[w].hand = {c} /\ q \in Queues
        /\ Moved(w, "next", q, worker[w].todo, {}, worker[w].errors \cup {c})
        /\ UNCHANGED <<cand, queue, promoted>>
    BY <1>15, RefuseEffect
  <2> QED
    BY <2>1 DEF Moved, Left
<1>16. ASSUME NEW w \in Workers, Finish(w) PROVE Progress'
  <2> DEFINE q == worker[w].queue
  <2>1. /\ Freed(w) /\ UNCHANGED <<cand, promoted>> /\ q \in Queues
        /\ queue[q].status = "PROCESSING"
        /\ \A p \in Queues : /\ queue'[p].records = queue[p].records
                             /\ queue'[p].target = queue[p].target
                             /\ queue'[p].status = "deleted" <=>
                                   queue[p].status = "deleted"
    BY <1>16, FinishEffect, OneFinishes DEF QueueSet
  <2> QED
    BY <2>1, WorkerQueue DEF Freed, Moved, Left
<1>17. ASSUME NEW w \in Workers, FinishRefused(w) PROVE Progress'
  <2>1. Freed(w) /\ UNCHANGED <<cand, queue, promoted>>
    BY <1>17, Frees DEF FinishRefused, Typed
  <2> QED
    BY <2>1 DEF Freed, Moved, Left
<1>18. ASSUME NEW w \in Workers, Heartbeat(w) PROVE Progress'
  <2>1. UNCHANGED <<worker, cand, promoted>>
        /\ \A p \in Queues : /\ queue'[p].records = queue[p].records
                             /\ queue'[p].target = queue[p].target
                             /\ queue'[p].status = "deleted" <=>
                                   queue[p].status = "deleted"
    BY <1>18, WorkerQueue DEF Heartbeat, Typed, TypeOK, Queue
  <2> QED
    BY <2>1, WorkerQueue DEF Left
<1>19. ASSUME NEW w \in Workers, Crash(w) PROVE Progress'
  <2>1. Freed(w) /\ UNCHANGED <<cand, queue, promoted>>
    BY <1>19, Frees DEF Crash, Typed
  <2> QED
    BY <2>1 DEF Freed, Moved, Left
<1>20. ASSUME NEW w \in Workers, NEW q \in Queues, Claim(w, q) PROVE Progress'
  <2>1. /\ Moved(w, "start", q, {}, {}, {}) /\ UNCHANGED <<cand, promoted>>
        /\ \A p \in Queues : /\ queue'[p].records = queue[p].records
                             /\ queue'[p].target = queue[p].target
                             /\ queue'[p].status = "deleted" <=>
                                   queue[p].status = "deleted"
    BY <1>20, ClaimEffect DEF QueueSet
  <2> QED
    BY <2>1, WorkerQueue DEF Moved, Left
<1>21. ASSUME NEW q \in Queues, LeaseExpires(q) PROVE Progress'
  <2>1. UNCHANGED <<worker, cand, promoted>>
        /\ \A p \in Queues : /\ queue'[p].records = queue[p].records
                             /\ queue'[p].target = queue[p].target
                             /\ queue'[p].status = "deleted" <=>
                                   queue[p].status = "deleted"
    BY <1>21 DEF LeaseExpires, Typed, TypeOK, Queue
  <2> QED
    BY <2>1, WorkerQueue DEF Left
<1>22. ASSUME NEW q \in Queues, Overrun(q) PROVE Progress'
  BY <1>22, StaysUndisturbed
<1>23. ASSUME NEW q \in Queues, Recover(q) PROVE Progress'
  <2>1. UNCHANGED <<worker, cand, promoted>>
        /\ \A p \in Queues : /\ queue'[p].records = queue[p].records
                             /\ queue'[p].target = queue[p].target
                             /\ queue'[p].status = "deleted" <=>
                                   queue[p].status = "deleted"
    BY <1>23 DEF Recover, Typed, TypeOK, Queue
  <2> QED
    BY <2>1, WorkerQueue DEF Left
<1>24. ASSUME NEW q \in Queues, DeadLetter(q) PROVE Progress'
  BY <1>24, StaysUndisturbed
<1>25. CASE UNCHANGED vars
  BY <1>25 DEF vars, Left
<1>26. ASSUME NEW c \in Cands, LateCheckpoint(c) PROVE Progress'
  BY <1>26, StaysUndisturbed
<1>27. CASE Requeue
  BY <1>27, StaysUndisturbed
<1>28. ASSUME NEW w \in Workers, Begin(w) PROVE Progress'
  BY <1>28, BeginEffect DEF Moved, Left
<1>29. ASSUME NEW w \in Workers, BeginRefused(w) PROVE Progress'
  BY <1>29, Frees DEF BeginRefused, Freed, Moved, Left, Typed
<1> QED
  BY <1>1, <1>2, <1>3, <1>4, <1>5, <1>6, <1>7, <1>8, <1>9, <1>10, <1>11,
     <1>12, <1>13, <1>14, <1>15, <1>16, <1>17, <1>18, <1>19, <1>20,
     <1>21, <1>22, <1>23, <1>24, <1>25,
     <1>26, <1>27, <1>28, <1>29
     DEF Next, Preprocess, Reviewer, Work

\* Only a replay stages a record a second time.
LEMMA NextStagedOnce ==
    ASSUME Typed, StagedOnce, [Next]_vars, Undisturbed'
    PROVE  StagedOnce'
<1>1. ~StopPreprocessing /\ ~Requeue
  BY StaysUndisturbed
<1> QED
  BY <1>1 DEF StagedOnce, Next, Preprocess, Reviewer, Work, StageNew, Restage,
     LateCheckpoint, Preprocessed, Resume, Confirm, Reject, ReviewEntity,
     Submit, Finalize, Cancel, Start, Begin, BeginRefused, Look, Promote, RefuseRecord, Finish, FinishRefused,
     Heartbeat, Crash, Claim, LeaseExpires, Overrun, Recover, DeadLetter, vars

\* A queue has one worker as long as leases and deliveries do not fail.
LEMMA LeaseHeldHolds == Spec => [](LeaseHonoured => LeaseHeld)
<1>1. Init => (LeaseHonoured => LeaseHeld)
  BY InitFenced DEF Fenced
<1>2. ReviewInv /\ (LeaseHonoured => LeaseHeld) /\ [Next]_vars
        => (LeaseHonoured => LeaseHeld)'
  BY StaysHonoured, NextLeaseHeld DEF ReviewInv
<1> QED
  BY <1>1, <1>2, ReviewInvHolds, PTL DEF Spec

\* What the fences give holds as long as no fault has broken them.
LEMMA FencedHolds == Spec => [](Undisturbed => Fenced)
<1>1. Init => (Undisturbed => Fenced)
  BY InitFenced
<1>2. ReviewInv /\ (Undisturbed => Fenced) /\ [Next]_vars
        => (Undisturbed => Fenced)'
  <2> SUFFICES ASSUME ReviewInv, Undisturbed => Fenced, [Next]_vars,
                      Undisturbed'
               PROVE  Fenced'
    OBVIOUS
  <2>1. Typed /\ Fenced /\ StagedOnce
    BY StaysUndisturbed DEF ReviewInv, Fenced
  <2> QED
    <3>1. LeaseHeld'
      BY <2>1, StaysUndisturbed, NextLeaseHeld DEF Fenced
    <3> QED
      BY <2>1, <3>1, NextStagedOnce, NextQueueOwns, NextProcessedByQueue,
         NextProgress, NextAskedFor
         DEF Fenced
<1> QED
  BY <1>1, <1>2, ReviewInvHolds, PTL DEF Spec

-----------------------------------------------------------------------------
\* The steps, as a reviewer sees them.

\* A created run shows as one whose records are not staged.
LEMMA InitShown == Init => Review!Init
<1> SUFFICES ASSUME Init PROVE Review!Init
  OBVIOUS
<1>1. entity \in [Cands -> Entity]
  BY InitTyped DEF Typed, TypeOK
<1> QED
  BY <1>1 DEF Init, Review!Init, ShownState, ShownStatus, Entity, NoFault,
     FaultKinds

\* What a step leaves alone does not show.
LEMMA ShownSame ==
    /\ cand' = cand => ShownState' = ShownState
    /\ entity' = entity => ShownStatus' = ShownStatus
BY DEF ShownState, ShownStatus

\* Every step of ImportPromotion is one of CandidateReview, or shows nothing.
LEMMA NextShown ==
    ASSUME ReviewInv, [Next]_vars
    PROVE  [Review!Next]_(Review!vars)
<1> USE DEF ShownState, ShownStatus, NoFault
<1> Typed /\ TypeOK
  BY DEF ReviewInv, Typed
<1>1. ASSUME NEW c \in Cands, StageNew(c) PROVE [Review!Next]_(Review!vars)
  <2>1. promoted[c] = <<>> /\ run /= "CANCELLED"
    BY <1>1 DEF StageNew, ReviewInv, PromotedIsProcessed, CancelledIsQuiet
  <2>2. promoted' = [promoted EXCEPT ![c] = <<>>]
    BY <1>1, <2>1 DEF StageNew, TypeOK
  <2>3. ShownState[c] = "unstaged"
    BY <1>1 DEF StageNew
  <2>4. ShownState' = [ShownState EXCEPT ![c] = "PENDING"]
    BY <1>1, CandEffect
  <2>5. run' = run /\ faults' = faults /\ ShownStatus' = ShownStatus
    BY <1>1 DEF StageNew
  <2>6. Review!Stage(c)
    BY <2>1, <2>2, <2>3, <2>4, <2>5 DEF Review!Stage
  <2> QED
    BY <2>6 DEF Review!Next
<1>2. ASSUME NEW c \in Cands, Restage(c) PROVE [Review!Next]_(Review!vars)
  <2>1. /\ run /= "CANCELLED" /\ run' = run /\ faults' = faults
        /\ ShownStatus' = ShownStatus
    BY <1>2 DEF Restage, ReviewInv, CancelledIsQuiet
  <2>2. CASE Staged(c)
    <3>1. promoted' = promoted
      BY <1>2, <2>2 DEF Restage, StagedAgain, TypeOK
    <3>2. \A d \in Cands : cand'[d].state = cand[d].state
      BY <1>2, <2>2 DEF Restage, StagedAgain, TypeOK
    <3> QED
      BY <2>1, <3>1, <3>2 DEF Review!vars
  <2>3. CASE ~Staged(c)
    <3>1. promoted' = [promoted EXCEPT ![c] = <<>>]
      BY <1>2, <2>3 DEF Restage, StagedAgain
    <3>2. ShownState' = [ShownState EXCEPT ![c] = "PENDING"]
      BY <1>2, <2>3 DEF Restage, StagedAgain, TypeOK
    <3>3. ShownState[c] \in {"unstaged", "gone"}
      BY <2>3 DEF Staged, TypeOK, Row
    <3>4. Review!Stage(c)
      BY <2>1, <3>1, <3>2, <3>3 DEF Review!Stage
    <3> QED
      BY <3>4 DEF Review!Next
  <2> QED
    BY <2>2, <2>3
<1>3. CASE Preprocessed
  <2>1. run /= "CANCELLED" /\ run' /= "CANCELLED"
    BY <1>3 DEF Preprocessed, ReviewInv, CancelledIsQuiet
  <2> QED
    BY <1>3, <2>1, ShownSame DEF Review!vars, Preprocessed
<1>4. CASE StopPreprocessing
  <2>1. (faults'["late"]) = faults["late"]
    BY <1>4 DEF StopPreprocessing, Fault, FaultKinds, TypeOK
  <2> QED
    BY <1>4, <2>1, ShownSame DEF Review!vars, StopPreprocessing
<1>5. CASE Resume
  BY <1>5, ShownSame DEF Review!vars, Resume
<1>6. ASSUME NEW c \in Cands, Confirm(c) PROVE [Review!Next]_(Review!vars)
  <2>1. ShownState[c] = "PENDING"
    BY <1>6 DEF Confirm
  <2>2. ShownState' = [d \in Cands |-> IF d \in {c} THEN "CONFIRMED"
                                       ELSE ShownState[d]]
    BY <1>6, CandEffect
  <2>3. UNCHANGED <<run, faults, ShownStatus, promoted>>
    BY <1>6 DEF Confirm
  <2>4. Review!Confirm({c})
    BY <2>1, <2>2, <2>3 DEF Review!Confirm
  <2> QED
    BY <2>4 DEF Review!Next
<1>7. ASSUME NEW c \in Cands, Reject(c) PROVE [Review!Next]_(Review!vars)
  <2>1. ShownState[c] /= "unstaged"
    BY <1>7 DEF Reject, Staged
  <2>2. ShownState' = [d \in Cands |-> IF d \in {c} THEN "gone"
                                       ELSE ShownState[d]]
    BY <1>7, CandEffect
  <2>3. UNCHANGED <<run, faults, ShownStatus, promoted>>
    BY <1>7 DEF Reject
  <2>4. Review!Discard({c})
    BY <2>1, <2>2, <2>3 DEF Review!Discard
  <2> QED
    BY <2>3, <2>4 DEF Review!Next
<1>8. ASSUME NEW c \in Cands,
             ReviewEntity(c)
      PROVE  [Review!Next]_(Review!vars)
  <2>1. PICK s \in EntityStatuses :
          /\ \/ entity[c].status = "CANDIDATE" /\ s \in {"APPROVED", "REJECTED"}
             \/ entity[c].status = "APPROVED" /\ s = "RETIRED"
             \/ entity[c].status = s
          /\ entity' = [entity EXCEPT ![c] =
                          [status |-> s, version |-> entity[c].version + 1]]
    BY <1>8 DEF ReviewEntity
  <2>2. ShownStatus' = [ShownStatus EXCEPT ![c] = s]
    BY <2>1 DEF TypeOK
  <2>3. UNCHANGED <<run, faults, ShownState, promoted>>
    BY <1>8 DEF ReviewEntity
  <2>4. CASE entity[c].status = s
    BY <2>2, <2>3, <2>4 DEF Review!vars
  <2>5. CASE entity[c].status /= s
    <3>1. \/ ShownStatus[c] = "CANDIDATE" /\ s \in {"APPROVED", "REJECTED"}
          \/ ShownStatus[c] = "APPROVED" /\ s = "RETIRED"
      BY <2>1, <2>5
    <3>2. Review!ReviewEntity(c, s)
      BY <2>2, <2>3, <3>1 DEF Review!ReviewEntity
    <3> QED
      BY <3>2 DEF Review!Next
  <2> QED
    BY <2>4, <2>5
<1>9. ASSUME NEW q \in Queues, NEW S \in SUBSET Cands, NEW t \in Targets,
             Submit(q, S, t)
      PROVE  [Review!Next]_(Review!vars)
  <2>1. \A c \in S : ShownState[c] \in {"PENDING", "CONFIRMED"}
    BY <1>9 DEF Submit, Submittable
  <2>2. ShownState' = [d \in Cands |-> IF d \in S THEN "CONFIRMED"
                                       ELSE ShownState[d]]
    <3>1. ASSUME NEW d \in S PROVE cand'[d].state = "CONFIRMED"
      <4>1. cand'[d] = [cand[d] EXCEPT !.state = "CONFIRMED", !.queue = q]
        BY <1>9 DEF Submit
      <4> QED
        BY <4>1 DEF TypeOK, Row
    <3>2. \A d \in Cands \ S : cand'[d] = cand[d]
      BY <1>9, SubmitEffect
    <3> QED
      BY <3>1, <3>2
  <2>3. UNCHANGED <<run, faults, ShownStatus, promoted>>
    BY <1>9 DEF Submit
  <2>4. Review!Confirm(S)
    BY <2>1, <2>2, <2>3 DEF Review!Confirm
  <2> QED
    BY <2>4 DEF Review!Next
<1>10. CASE Finalize
  <2>1. ShownState' = [d \in Cands |->
          IF d \in {c \in Cands : ShownState[c] /= "unstaged"} THEN "gone"
          ELSE ShownState[d]]
    BY <1>10, DiscardEffect DEF Finalize
  <2>2. UNCHANGED <<faults, ShownStatus, promoted>>
    BY <1>10 DEF Finalize
  <2>3. Review!Close
    BY <2>1, <2>2 DEF Review!Close, Review!Discard
  <2> QED
    BY <2>3 DEF Review!Next
<1>11. CASE Cancel
  <2>1. ShownState' = [d \in Cands |->
          IF d \in {c \in Cands : ShownState[c] /= "unstaged"} THEN "gone"
          ELSE ShownState[d]]
    BY <1>11, DiscardEffect DEF Cancel
  <2>2. UNCHANGED <<faults, ShownStatus, promoted>>
    BY <1>11 DEF Cancel
  <2>3. Review!Close
    BY <2>1, <2>2 DEF Review!Close, Review!Discard
  <2> QED
    BY <2>3 DEF Review!Next
<1>12. ASSUME NEW w \in Workers, Start(w) PROVE [Review!Next]_(Review!vars)
  BY <1>12, ShownSame DEF Review!vars, Start
<1>13. ASSUME NEW w \in Workers, NEW c \in Cands,
             Look(w, c)
      PROVE  [Review!Next]_(Review!vars)
  BY <1>13, ShownSame DEF Review!vars, Look
<1>14. ASSUME NEW w \in Workers, NEW c \in Cands,
             Promote(w, c)
      PROVE  [Review!Next]_(Review!vars)
  <2>1. PICK t \in Targets : /\ t = queue[worker[w].queue].target
                             /\ promoted' = [promoted EXCEPT ![c] = <<t>>]
    BY <1>14, PromotionIsFirst DEF ReviewInv
  <2>2. /\ cand[c].state = "CONFIRMED" /\ entity[c].status /= "APPROVED"
        /\ cand'[c].state = "PROCESSED"
        /\ \A d \in Cands \ {c} : cand'[d] = cand[d]
        /\ run' = run
    BY <1>14, PromoteEffect
  <2>3. ShownState' = [ShownState EXCEPT ![c] = "PROCESSED"]
    BY <2>2
  <2>4. ShownStatus' = [ShownStatus EXCEPT ![c] = t]
    BY <1>14, <2>1 DEF Promote, TypeOK
  <2>5. (run = "CANCELLED" => ~NoFault("late")) /\ faults' = faults
    BY <1>14, <2>2 DEF ReviewInv, CancelledIsQuiet, Promote
  <2>6. ShownState[c] = "CONFIRMED" /\ ShownStatus[c] /= "APPROVED"
    BY <2>2
  <2>7. Review!Promote(c, t)
    BY <2>1, <2>2, <2>3, <2>4, <2>5, <2>6 DEF Review!Promote
  <2> QED
    BY <2>7 DEF Review!Next
<1>15. ASSUME NEW w \in Workers, NEW c \in Cands,
             RefuseRecord(w, c)
      PROVE  [Review!Next]_(Review!vars)
  BY <1>15, ShownSame DEF Review!vars, RefuseRecord
<1>16. ASSUME NEW w \in Workers, Finish(w) PROVE [Review!Next]_(Review!vars)
  <2>1. (run' = "CANCELLED") = (run = "CANCELLED")
    BY <1>16 DEF Finish
  <2> QED
    BY <1>16, <2>1, ShownSame DEF Review!vars, Finish
<1>17. ASSUME NEW w \in Workers,
             FinishRefused(w)
      PROVE  [Review!Next]_(Review!vars)
  BY <1>17, ShownSame DEF Review!vars, FinishRefused
<1>18. ASSUME NEW w \in Workers,
             Heartbeat(w)
      PROVE  [Review!Next]_(Review!vars)
  BY <1>18, ShownSame DEF Review!vars, Heartbeat
<1>19. ASSUME NEW w \in Workers, Crash(w) PROVE [Review!Next]_(Review!vars)
  <2>1. faults'["late"] = faults["late"]
    BY <1>19 DEF Crash, Fault, FaultKinds, TypeOK
  <2> QED
    BY <1>19, <2>1, ShownSame DEF Review!vars, Crash
<1>20. ASSUME NEW w \in Workers, NEW q \in Queues,
             Claim(w, q)
      PROVE  [Review!Next]_(Review!vars)
  BY <1>20, ShownSame DEF Review!vars, Claim
<1>21. ASSUME NEW q \in Queues,
             LeaseExpires(q)
      PROVE  [Review!Next]_(Review!vars)
  BY <1>21, ShownSame DEF Review!vars, LeaseExpires
<1>22. ASSUME NEW q \in Queues, Overrun(q) PROVE [Review!Next]_(Review!vars)
  <2>1. faults'["late"] = faults["late"]
    BY <1>22 DEF Overrun, Fault, FaultKinds, TypeOK
  <2> QED
    BY <1>22, <2>1, ShownSame DEF Review!vars, Overrun
<1>23. ASSUME NEW q \in Queues, Recover(q) PROVE [Review!Next]_(Review!vars)
  BY <1>23, ShownSame DEF Review!vars, Recover
<1>24. ASSUME NEW q \in Queues,
             DeadLetter(q)
      PROVE  [Review!Next]_(Review!vars)
  <2>1. faults'["late"] = faults["late"]
    BY <1>24 DEF DeadLetter, Fault, FaultKinds, TypeOK
  <2> QED
    BY <1>24, <2>1, ShownSame DEF Review!vars, DeadLetter
<1>25. CASE UNCHANGED vars
  BY <1>25, ShownSame DEF Review!vars, vars
<1>26. ASSUME NEW c \in Cands, LateCheckpoint(c) PROVE [Review!Next]_(Review!vars)
  <2>1. /\ run' = run /\ ShownStatus' = ShownStatus
        /\ ~NoFault("late")'
    BY <1>26 DEF LateCheckpoint, Fault, FaultKinds, TypeOK
  <2>2. \A d \in Cands \ {c} : cand'[d] = cand[d]
    <3>1. CASE StagedAgain(c)
      BY <3>1 DEF StagedAgain, TypeOK
    <3>2. CASE StagedOver(c)
      BY <3>2 DEF StagedOver, TypeOK
    <3> QED
      BY <1>26, <3>1, <3>2 DEF LateCheckpoint
  <2>3. CASE Staged(c) /\ StagedAgain(c)
    <3>1. promoted' = promoted /\ cand'[c].state = cand[c].state
      BY <2>3 DEF StagedAgain, TypeOK
    <3>2. ShownState' = ShownState
      BY <2>2, <3>1
    <3>3. ShownState[c] \notin {"unstaged", "gone"}
      BY <2>3 DEF Staged
    <3>4. Review!StageLate(c)
      BY <2>1, <3>1, <3>2, <3>3 DEF Review!StageLate
    <3> QED
      BY <3>4 DEF Review!Next
  <2>4. CASE ~(Staged(c) /\ StagedAgain(c))
    <3>1. promoted' = [promoted EXCEPT ![c] = <<>>]
      BY <1>26, <2>4 DEF LateCheckpoint, StagedAgain, StagedOver
    <3>2. cand'[c].state = "PENDING"
      BY <1>26, <2>4 DEF LateCheckpoint, StagedAgain, StagedOver, TypeOK
    <3>3. ShownState' = [ShownState EXCEPT ![c] = "PENDING"]
      BY <2>2, <3>2
    <3>4. Review!StageLate(c)
      BY <2>1, <3>1, <3>3 DEF Review!StageLate
    <3> QED
      BY <3>4 DEF Review!Next
  <2> QED
    BY <2>3, <2>4
<1>27. CASE Requeue
  <2>1. /\ run /= "CANCELLED" /\ run' /= "CANCELLED"
        /\ faults'["late"] = faults["late"]
    BY <1>27 DEF Requeue, Fault, FaultKinds, TypeOK
  <2> QED
    BY <1>27, <2>1, ShownSame DEF Review!vars, Requeue
<1>28. ASSUME NEW w \in Workers, Begin(w) PROVE [Review!Next]_(Review!vars)
  BY <1>28, ShownSame DEF Review!vars, Begin
<1>29. ASSUME NEW w \in Workers, BeginRefused(w) PROVE [Review!Next]_(Review!vars)
  BY <1>29, ShownSame DEF Review!vars, BeginRefused
<1> QED
  BY <1>1, <1>2, <1>3, <1>4, <1>5, <1>6, <1>7, <1>8, <1>9, <1>10, <1>11,
     <1>12, <1>13, <1>14, <1>15, <1>16, <1>17, <1>18, <1>19, <1>20,
     <1>21, <1>22, <1>23, <1>24, <1>25,
     <1>26, <1>27, <1>28, <1>29
     DEF Next, Preprocess, Reviewer, Work

\* In the review, too, a candidate is promoted only by a promotion.
LEMMA PromotionShown ==
    ASSUME TypeOK, [Review!Next]_(Review!vars), NEW c \in Cands, Promotes(c)
    PROVE  entity[c].status /= "APPROVED"
<1> USE DEF ShownState, ShownStatus
<1>1. ShownState'[c] = "PROCESSED" /\ ShownState[c] /= "PROCESSED"
  BY DEF Promotes
<1>2. PICK d \in Cands, t \in Targets : Review!Promote(d, t)
  <2> HIDE DEF ShownState, ShownStatus
  <2>1. ShownState = [d \in Cands |-> ShownState[d]]
    BY DEF ShownState
  <2> QED
    BY <1>1, <2>1 DEF Review!Next, Review!Stage, Review!StageLate, Review!Confirm,
       Review!Discard, Review!Close, Review!ReviewEntity, Review!vars
<1>3. d = c
  BY <1>1, <1>2 DEF Review!Promote
<1> QED
  BY <1>2, <1>3 DEF Review!Promote

Final(p) ==
    \/ queue'[p].status \in {"COMPLETED", "deleted"}
    \/ /\ ~(NoFault("overrun") /\ NoFault("dead"))
       /\ \E w \in Workers : Latecomer(w, p) /\ Finish(w)

\* A COMPLETED queue is neither claimed nor written again, but by a worker
\* that took it over as COMPLETED; it may be deleted.
LEMMA NextFinal ==
    ASSUME Typed, LeaseHonoured => LeaseHeld, [Next]_vars, NEW p \in Queues,
           queue[p].status = "COMPLETED"
    PROVE  Final(p)
<1> USE DEF Typed, TypeOK, Final
<1>1. ASSUME NEW c \in Cands, StageNew(c) PROVE Final(p)
  BY <1>1 DEF StageNew
<1>2. ASSUME NEW c \in Cands, Restage(c) PROVE Final(p)
  BY <1>2 DEF Restage
<1>3. CASE Preprocessed
  BY <1>3 DEF Preprocessed
<1>4. CASE StopPreprocessing
  BY <1>4 DEF StopPreprocessing
<1>5. CASE Resume
  BY <1>5 DEF Resume
<1>6. ASSUME NEW c \in Cands, Confirm(c) PROVE Final(p)
  BY <1>6 DEF Confirm
<1>7. ASSUME NEW c \in Cands, Reject(c) PROVE Final(p)
  BY <1>7 DEF Reject
<1>8. ASSUME NEW c \in Cands, ReviewEntity(c) PROVE Final(p)
  BY <1>8 DEF ReviewEntity
<1>9. ASSUME NEW q \in Queues, NEW S \in SUBSET Cands, NEW t \in Targets,
             Submit(q, S, t)
      PROVE  Final(p)
  BY <1>9, SubmitEffect
<1>10. CASE Finalize
  BY <1>10 DEF Finalize, NoQueue
<1>11. CASE Cancel
  BY <1>11 DEF Cancel
<1>12. ASSUME NEW w \in Workers, Start(w) PROVE Final(p)
  BY <1>12 DEF Start
<1>13. ASSUME NEW w \in Workers, NEW c \in Cands, Look(w, c) PROVE Final(p)
  BY <1>13 DEF Look
<1>14. ASSUME NEW w \in Workers, NEW c \in Cands, Promote(w, c) PROVE Final(p)
  BY <1>14 DEF Promote
<1>15. ASSUME NEW w \in Workers, NEW c \in Cands,
             RefuseRecord(w, c)
      PROVE  Final(p)
  BY <1>15 DEF RefuseRecord
<1>16. ASSUME NEW w \in Workers, Finish(w) PROVE Final(p)
  <2> DEFINE q == worker[w].queue
  <2>1. CASE q /= p
    BY <1>16, <2>1, FinishEffect DEF QueueSet
  <2>2. CASE q = p
    <3>1. worker[w].base = "COMPLETED" /\ worker[w].step = "next"
      BY <1>16, <2>2, FinishEffect
    <3>2. ~LeaseHonoured
      BY <2>2, <3>1 DEF LeaseHeld, Busy, StatusOf
    <3> QED
      BY <1>16, <2>2, <3>1, <3>2 DEF LeaseHonoured, Latecomer
  <2> QED
    BY <2>1, <2>2
<1>17. ASSUME NEW w \in Workers, FinishRefused(w) PROVE Final(p)
  BY <1>17 DEF FinishRefused
<1>18. ASSUME NEW w \in Workers, Heartbeat(w) PROVE Final(p)
  BY <1>18, WorkerQueue DEF Heartbeat
<1>19. ASSUME NEW w \in Workers, Crash(w) PROVE Final(p)
  BY <1>19 DEF Crash
<1>20. ASSUME NEW w \in Workers, NEW q \in Queues, Claim(w, q) PROVE Final(p)
  BY <1>20, ClaimEffect DEF QueueSet
<1>21. ASSUME NEW q \in Queues, LeaseExpires(q) PROVE Final(p)
  BY <1>21 DEF LeaseExpires
<1>22. ASSUME NEW q \in Queues, Overrun(q) PROVE Final(p)
  BY <1>22 DEF Overrun
<1>23. ASSUME NEW q \in Queues, Recover(q) PROVE Final(p)
  BY <1>23 DEF Recover
<1>24. ASSUME NEW q \in Queues, DeadLetter(q) PROVE Final(p)
  BY <1>24 DEF DeadLetter, Active
<1>25. CASE UNCHANGED vars
  BY <1>25 DEF vars
<1>26. ASSUME NEW c \in Cands, LateCheckpoint(c) PROVE Final(p)
  BY <1>26 DEF LateCheckpoint
<1>27. CASE Requeue
  BY <1>27 DEF Requeue
<1>28. ASSUME NEW w \in Workers, Begin(w) PROVE Final(p)
  <2> DEFINE q == worker[w].queue
  <2>1. worker[w].base /= "COMPLETED" /\ BeginAccepted(w)
    BY <1>28 DEF Begin, QueueHeld
  <2>2. PICK status \in QueueStatuses :
          /\ queue' = [queue EXCEPT ![q] = [queue[q] EXCEPT !.status = status]]
          /\ status = IF worker[w].base = "PROCESSING"
                      THEN queue[q].status ELSE "PROCESSING"
    BY <1>28, BeginChanges
  <2>3. q \in Queues /\ queue[q] \in Queue
    BY <1>28, WorkerQueue DEF Begin
  <2>4. CASE q = p
    <3>1. worker[w].base = "PROCESSING"
      BY <2>1, <2>4 DEF BeginAccepted
    <3>2. queue'[p].status = status
      BY <2>2, <2>3, <2>4 DEF Queue
    <3> QED
      BY <2>2, <2>4, <3>1, <3>2
  <2>5. CASE q /= p
    BY <2>2, <2>5
  <2> QED
    BY <2>4, <2>5
<1>29. ASSUME NEW w \in Workers, BeginRefused(w) PROVE Final(p)
  BY <1>29 DEF BeginRefused
<1> QED
  BY <1>1, <1>2, <1>3, <1>4, <1>5, <1>6, <1>7, <1>8, <1>9, <1>10, <1>11,
     <1>12, <1>13, <1>14, <1>15, <1>16, <1>17, <1>18, <1>19, <1>20,
     <1>21, <1>22, <1>23, <1>24, <1>25,
     <1>26, <1>27, <1>28, <1>29
     DEF Next, Preprocess, Reviewer, Work

-----------------------------------------------------------------------------
(* Type correctness of the candidates, queues, entities and workers under  *)
(* every order of requests, deliveries, crashes, overrun leases, replays   *)
(* and dead letters.                                                       *)
THEOREM PromotionTypes == Spec => []TypeOK
<1>1. ReviewInv => TypeOK
  BY DEF ReviewInv, Typed
<1> QED
  BY <1>1, ReviewInvHolds, PTL

(* A record is promoted at most once since it was staged, by however many  *)
(* workers of however many queues: the comparison of the candidate row at  *)
(* the flush is enough, the lease is not needed (_process_import_queue,    *)
(* RowRepository.flush).                                                   *)
THEOREM PromotedAtMostOnce == Spec => []PromotedOnce
<1>1. ReviewInv => PromotedOnce
  BY DEF ReviewInv, PromotedIsProcessed, PromotedOnce
<1> QED
  BY <1>1, ReviewInvHolds, PTL

(* No promotion writes an entity that is APPROVED by then: the status is   *)
(* checked at the read, and the version of what was read at the flush.     *)
THEOREM ApprovedIsKept == Spec => ApprovedUntouched
<1>1. ReviewInv /\ [Next]_vars =>
        [\A c \in Cands : Promotes(c) => entity[c].status /= "APPROVED"]_vars
  BY NextShown, PromotionShown DEF ReviewInv, Typed
<1> QED
  BY <1>1, ReviewInvHolds, PTL DEF Spec, ApprovedUntouched

(* COMPLETED is final: neither a second worker, nor the recovery of a      *)
(* dispatch, nor a dead letter takes back what a reviewer may have seen,   *)
(* but a worker that has read the queue before it was COMPLETED and made   *)
(* its first flush afterwards; and there is no such worker while no lease  *)
(* was overrun and no delivery dead-lettered.                              *)
THEOREM CompletionIsFinal == Spec => CompletedIsFinal
<1>1. ReviewInv /\ (LeaseHonoured => LeaseHeld) /\ [Next]_vars =>
        [\A q \in Queues : queue[q].status = "COMPLETED" =>
            \/ queue'[q].status \in {"COMPLETED", "deleted"}
            \/ /\ ~(NoFault("overrun") /\ NoFault("dead"))
               /\ \E w \in Workers : Latecomer(w, q) /\ Finish(w)]_vars
  BY NextFinal DEF ReviewInv, Final
<1> QED
  BY <1>1, ReviewInvHolds, LeaseHeldHolds, PTL DEF Spec, CompletedIsFinal

(* As long as leases outlive their workers and nothing is replayed or      *)
(* dead-lettered, a COMPLETED queue has promoted each of its records to    *)
(* its own target, whatever crashes and whoever takes the queue over.      *)
THEOREM CompletionAsAsked == Spec => []CompletedAsAsked
<1>1. (Undisturbed => Fenced) => CompletedAsAsked
  BY DEF Undisturbed, Fenced, AskedFor, CompletedAsAsked
<1> QED
  BY <1>1, FencedHolds, PTL

(* Queues, workers and leases implement the review in which a promotion is *)
(* one step: it happens to a confirmed candidate and to an entity that is  *)
(* not approved at that moment; a cancellation ends it, but for what a     *)
(* late checkpoint stages in the cancelled run.                            *)
THEOREM ReviewImplemented == Spec => ImplementsReview
<1>1. ReviewInv /\ [Next]_vars => [Review!Next]_(Review!vars)
  BY NextShown
<1> QED
  BY <1>1, InitShown, ReviewInvHolds, PTL DEF Spec, ImplementsReview,
     Review!Spec
=============================================================================
