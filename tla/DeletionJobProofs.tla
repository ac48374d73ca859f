-------------------------- MODULE DeletionJobProofs --------------------------
(***************************************************************************)
(* An entity goes in both services or in none, a completed job stays       *)
(* completed, and one worker at a time has the job unless a lease runs out *)
(* under it, for every set of workers and every number of commands and     *)
(* faults.                                                                 *)
(***************************************************************************)
EXTENDS DeletionJob, FiniteSetTheorems, TLAPS

\* The part of TypeOK the argument needs.
Shape ==
    /\ status \in Statuses
    /\ entity \in Entities
    /\ pc \in [Workers -> Phases]
    /\ seen \in [Workers -> Entities \cup {"unread"}]

\* A worker that has called the activity service goes on to look and to commit.
CascadeFirst ==
    \A w \in Workers : pc[w] \in {"look", "commit"} => cascaded

\* What a worker has seen to be gone is gone, unless it was created again.
GoneIsGone ==
    \A w \in Workers : seen[w] = "absent" /\ ~revived => entity = "absent"

GoneInv == Shape /\ CascadeFirst /\ GoneIsGone /\ GoneInBoth

-----------------------------------------------------------------------------
(* The invariant holds when nothing has been asked for (create_deletion_job).*)
LEMMA GoneStarts == Init => GoneInv
  BY DEF Init, GoneInv, Shape, CascadeFirst, GoneIsGone, GoneInBoth, Statuses,
         Entities, Phases, Synced

(* A worker that moves on is the only one that does.                       *)
LEMMA OneMoves ==
    ASSUME Shape, NEW w \in Workers, NEW p \in Phases, Goto(w, p)
    PROVE  /\ pc' \in [Workers -> Phases]
           /\ pc'[w] = p
           /\ \A v \in Workers \ {w} : pc'[v] = pc[v]
  BY DEF Shape, Goto

(* A worker that leaves has seen nothing.                                  *)
LEMMA OneLeaves ==
    ASSUME Shape, NEW w \in Workers, Leave(w)
    PROVE  /\ pc' \in [Workers -> Phases]
           /\ pc'[w] = "idle"
           /\ \A v \in Workers \ {w} : pc'[v] = pc[v]
           /\ seen' \in [Workers -> Entities \cup {"unread"}]
           /\ seen'[w] = "unread"
           /\ \A v \in Workers \ {w} : seen'[v] = seen[v]
  BY DEF Shape, Leave, Goto, Phases, Synced

(* Every step of a worker keeps it, with its errors (_execute_deletion_job,*)
(* _consume).                                                              *)
LEMMA WorkersKeepIt ==
    ASSUME GoneInv, NEW w \in Workers,
           Deliver(w) \/ Handle(w) \/ CascadeFails(w) \/ LookFails(w)
             \/ DeadLetter(w) \/ Crash(w)
    PROVE  GoneInv'
<1> USE DEF GoneInv
<1> /\ {"idle", "claimed", "nak", "start"} \subseteq Phases
    /\ {"cascade", "look", "commit", "giveBack"} \subseteq Phases
    /\ {"QUEUED", "PROCESSING", "COMPLETED"} \subseteq Statuses
  BY DEF Phases, Synced, Statuses
<1>1. CASE Deliver(w)
  <2>1. UNCHANGED <<ent, cascaded, seen>>
    BY <1>1 DEF Deliver
  <2>2. status' = status \/ status' = "PROCESSING"
    BY <1>1 DEF Deliver, job
  <2>3. pc' = pc \/ Goto(w, "claimed") \/ Goto(w, "nak")
    BY <1>1 DEF Deliver
  <2>4. QED
    BY <2>1, <2>2, <2>3, OneMoves
       DEF Shape, CascadeFirst, GoneIsGone, GoneInBoth, ent
<1>2. CASE Reread(w)
  BY <1>2, OneMoves
     DEF Reread, Shape, CascadeFirst, GoneIsGone, GoneInBoth, ent, job
<1>3. CASE Start(w)
  <2>1. UNCHANGED <<ent, cascaded, seen>> /\ Goto(w, "cascade")
    BY <1>3 DEF Start
  <2>2. status' = status \/ status' = "PROCESSING"
    BY <1>3 DEF Start, Merged
  <2>3. QED
    BY <2>1, <2>2, OneMoves
       DEF Shape, CascadeFirst, GoneIsGone, GoneInBoth, ent
<1>4. CASE StartRefused(w)
  BY <1>4, OneMoves
     DEF StartRefused, Shape, CascadeFirst, GoneIsGone, GoneInBoth, ent,
         job
<1>5. CASE Cascade(w)
  BY <1>5, OneMoves
     DEF Cascade, Shape, CascadeFirst, GoneIsGone, GoneInBoth, ent, job
<1>6. CASE Look(w)
  <2>1. UNCHANGED <<job, ent, cascaded>> /\ (Goto(w, "commit") \/ Goto(w, "giveBack"))
    BY <1>6 DEF Look
  <2>2. cascaded
    BY <1>6 DEF Look, CascadeFirst
  <2>3. seen' = [seen EXCEPT ![w] = entity]
    BY <1>6 DEF Look
  <2>4. Shape' /\ CascadeFirst'
    BY <2>1, <2>2, <2>3, OneMoves DEF Shape, CascadeFirst, ent, job
  <2>5. GoneIsGone' /\ GoneInBoth'
    BY <2>1, <2>3 DEF Shape, GoneIsGone, GoneInBoth, ent, job
  <2>6. QED
    BY <2>4, <2>5
<1>7. CASE Commit(w)
  <2>1. /\ status' = "COMPLETED" /\ UNCHANGED <<revived, cascaded>>
        /\ entity' = IF seen[w] = "absent" THEN entity ELSE "absent"
        /\ seen' = [seen EXCEPT ![w] = "unread"]
        /\ Goto(w, "idle")
    BY <1>7 DEF Commit
  <2>2. cascaded
    BY <1>7 DEF Commit, CascadeFirst
  <2>3. Shape' /\ CascadeFirst'
    BY <2>1, <2>2, OneMoves DEF Shape, CascadeFirst, Entities
  <2>4. GoneIsGone' /\ GoneInBoth'
    BY <2>1, <2>2 DEF Shape, GoneIsGone, GoneInBoth
  <2>5. QED
    BY <2>3, <2>4
<1>8. CASE CommitRefused(w)
  BY <1>8, OneMoves
     DEF CommitRefused, Shape, CascadeFirst, GoneIsGone, GoneInBoth, ent,
         job
<1>9. CASE GiveBack(w)
  <2>1. UNCHANGED <<ent, cascaded, seen>> /\ Goto(w, "nak")
    BY <1>9 DEF GiveBack
  <2>2. status' = status \/ status' = "PROCESSING"
    BY <1>9 DEF GiveBack, Merged, job
  <2>3. QED
    BY <2>1, <2>2, OneMoves
       DEF Shape, CascadeFirst, GoneIsGone, GoneInBoth, ent
<1>10. CASE Nak(w) \/ DeadLetter(w) \/ Crash(w)
  <2>1. UNCHANGED <<job, ent, cascaded>> /\ Leave(w)
    BY <1>10 DEF Nak, DeadLetter, Crash
  <2>2. QED
    BY <2>1, OneLeaves
       DEF Shape, CascadeFirst, GoneIsGone, GoneInBoth, ent, job
<1>11. CASE CascadeFails(w)
  <2>1. UNCHANGED <<job, ent, seen>> /\ Goto(w, "giveBack")
    BY <1>11 DEF CascadeFails
  <2>2. cascaded => cascaded'
    BY <1>11, Zenon DEF CascadeFails
  <2>3. QED
    BY <2>1, <2>2, OneMoves
       DEF Shape, CascadeFirst, GoneIsGone, GoneInBoth, ent, job
<1>12. CASE LookFails(w)
  BY <1>12, OneMoves
     DEF LookFails, Shape, CascadeFirst, GoneIsGone, GoneInBoth, ent, job
<1>13. QED
  BY <1>1, <1>2, <1>3, <1>4, <1>5, <1>6, <1>7, <1>8, <1>9, <1>10,
     <1>11, <1>12
     DEF Handle

(* So does what the administrator, the reconciler, the clock, reviewers    *)
(* and promotions do (confirm_deletion_job, _recover_expired_work_dispatches).*)
LEMMA OthersKeepIt ==
    ASSUME GoneInv,
           Create \/ Confirm \/ LeaseExpires \/ Overrun \/ Redispatch
             \/ Review \/ Promote \/ UNCHANGED vars
    PROVE  GoneInv'
<1> USE DEF GoneInv
<1>1. CASE Create \/ Confirm
  <2>1. /\ UNCHANGED <<ent, cascaded, pc, seen>>
        /\ status' \in {"AWAITING_CONFIRMATION", "QUEUED"}
    BY <1>1 DEF Create, Confirm
  <2>2. QED
    BY <2>1 DEF Shape, CascadeFirst, GoneIsGone, GoneInBoth, ent, Statuses
<1>2. CASE LeaseExpires \/ Overrun \/ UNCHANGED vars
  <2>1. UNCHANGED <<status, ent, cascaded, pc, seen>>
    BY <1>2 DEF LeaseExpires, Overrun, LeaseOver, vars, job
  <2>2. QED
    BY <2>1 DEF Shape, CascadeFirst, GoneIsGone, GoneInBoth, ent
<1>3. CASE Redispatch
  <2>1. /\ UNCHANGED <<ent, cascaded, pc, seen>>
        /\ status' = status \/ status' = "QUEUED"
    BY <1>3 DEF Redispatch, job
  <2>2. QED
    BY <2>1 DEF Shape, CascadeFirst, GoneIsGone, GoneInBoth, ent, Statuses
<1>4. CASE Review
  BY <1>4
     DEF Review, Shape, CascadeFirst, GoneIsGone, GoneInBoth, job,
         Entities
<1>5. CASE Promote
  BY <1>5
     DEF Promote, Shape, CascadeFirst, GoneIsGone, GoneInBoth, job,
         Entities
<1>6. QED
  BY <1>1, <1>2, <1>3, <1>4, <1>5

(* However workers overlap, fail and repeat each other, the entity never   *)
(* disappears here before the activity service has deleted its records,    *)
(* and a completed job has deleted both (_execute_deletion_job).           *)
THEOREM DeletedInBoth == Spec => []GoneInBoth
<1>1. GoneInv /\ [Next]_vars => GoneInv'
  BY WorkersKeepIt, OthersKeepIt DEF Next, Faults
<1>2. GoneInv => GoneInBoth
  BY DEF GoneInv
<1>3. QED
  BY GoneStarts, <1>1, <1>2, PTL DEF Spec

-----------------------------------------------------------------------------
(***************************************************************************)
(* A completed job stays completed.  Only Start and GiveBack write another *)
(* status over it, and the field-wise merge lets them only if the worker   *)
(* has read COMPLETED: a baseline of PROCESSING leaves the field alone,    *)
(* any other one conflicts.  Past Start nobody holds such a baseline,      *)
(* because the commit that completes the job moves the stamp of every copy *)
(* read before it, and Start refuses a copy whose stamp has moved.         *)
(***************************************************************************)

PastStart == {"cascade", "look", "commit", "giveBack"}

RowShape ==
    /\ status \in Statuses
    /\ pc \in [Workers -> Phases]
    /\ baseStatus \in [Workers -> Statuses]
    /\ stampMoved \in [Workers -> BOOLEAN]

\* Who began to delete took the job for one that is not over.
BegunUnfinished ==
    \A w \in Workers : pc[w] \in PastStart => baseStatus[w] /= "COMPLETED"

\* Who read the row before it was completed will find that it has moved.
CompletionSeen ==
    status = "COMPLETED" =>
        \A w \in Workers :
            pc[w] = "start" => stampMoved[w] \/ baseStatus[w] = "COMPLETED"

FinalInv == RowShape /\ BegunUnfinished /\ CompletionSeen

(* Nobody has a copy of the row of a job that was not asked for            *)
(* (create_deletion_job).                                                  *)
LEMMA FinalStarts == Init => FinalInv
  BY DEF Init, FinalInv, RowShape, BegunUnfinished, CompletionSeen, PastStart,
         Statuses, Phases, Synced

(* A step that leaves the copies alone and moves one worker, not to "start" *)
(* and past it only if its copy allows, keeps the invariant (RowScope).     *)
LEMMA CopiesKept ==
    ASSUME FinalInv, NEW w \in Workers, NEW p \in Phases, Goto(w, p),
           UNCHANGED <<baseStatus, stampMoved>>,
           status' \in Statuses, status' = "COMPLETED" => status = "COMPLETED",
           p /= "start",
           p \in PastStart => baseStatus[w] /= "COMPLETED"
    PROVE  FinalInv'
  BY DEF FinalInv, RowShape, BegunUnfinished, CompletionSeen, Goto, PastStart

(* A worker that leaves has no copy of the row (_consume).                 *)
LEMMA LeaversForget ==
    ASSUME FinalInv, NEW w \in Workers, Leave(w), UNCHANGED job
    PROVE  FinalInv'
<1>1. /\ pc' = [pc EXCEPT ![w] = "idle"]
      /\ baseStatus' = [baseStatus EXCEPT ![w] = "none"]
      /\ stampMoved' = [stampMoved EXCEPT ![w] = FALSE]
      /\ status' = status
  BY DEF Leave, Goto, job
<1>2. "idle" \in Phases /\ "none" \in Statuses
  BY DEF Phases, Statuses
<1>3. QED
  BY <1>1, <1>2
     DEF FinalInv, RowShape, BegunUnfinished, CompletionSeen, PastStart

(* Every step of a worker keeps it, and of a completed job only a          *)
(* latecomer changes the status (_execute_deletion_job, _consume).         *)
LEMMA WorkersKeepFinal ==
    ASSUME FinalInv, NEW w \in Workers,
           Deliver(w) \/ Handle(w) \/ CascadeFails(w) \/ LookFails(w)
             \/ DeadLetter(w) \/ Crash(w)
    PROVE  /\ FinalInv'
           /\ status = "COMPLETED" /\ ~Latecomer(w) => status' = "COMPLETED"
<1> USE DEF FinalInv
<1>0. /\ {"idle", "claimed", "nak"} \cup Synced \subseteq Phases
      /\ PastStart \subseteq Synced
      /\ {"idle", "claimed", "nak", "start"} \cap PastStart = {}
      /\ {"PROCESSING", "COMPLETED"} \subseteq Statuses
  BY DEF Phases, Synced, Statuses, PastStart
<1>1. CASE Deliver(w)
  <2>1. UNCHANGED <<baseStatus, stampMoved>>
    BY <1>1 DEF Deliver
  <2>2. status' = status \/ (status /= "COMPLETED" /\ status' = "PROCESSING")
    BY <1>1 DEF Deliver, Claimable, job
  <2>3. status' \in Statuses
    BY <1>0, <2>2 DEF RowShape
  <2>4. pc' = pc \/ Goto(w, "claimed") \/ Goto(w, "nak")
    BY <1>1 DEF Deliver
  <2>5. CASE pc' = pc
    BY <2>1, <2>2, <2>3, <2>5 DEF RowShape, BegunUnfinished, CompletionSeen
  <2>6. CASE Goto(w, "claimed")
    BY <1>0, <2>1, <2>2, <2>3, <2>6, CopiesKept
  <2>7. CASE Goto(w, "nak")
    BY <1>0, <2>1, <2>2, <2>3, <2>7, CopiesKept
  <2>8. QED
    BY <2>2, <2>4, <2>5, <2>6, <2>7
<1>2. CASE Reread(w)
  <2>1. /\ status' = status /\ stampMoved' = stampMoved
        /\ baseStatus' = [baseStatus EXCEPT ![w] = status]
        /\ pc' = [pc EXCEPT ![w] = "start"]
    BY <1>2 DEF Reread, Goto, job
  <2>2. "start" \in Phases
    BY DEF Phases, Synced
  <2>3. QED
    BY <1>0, <2>1, <2>2 DEF RowShape, BegunUnfinished, CompletionSeen
<1>3. CASE Start(w)
  <2>1. /\ ~Conflict(w, "PROCESSING")
        /\ status' = Merged(w, "PROCESSING")
        /\ baseStatus' = [baseStatus EXCEPT ![w] = status']
        /\ stampMoved' = Stamp(stampMoved, w)
        /\ pc' = [pc EXCEPT ![w] = "cascade"]
        /\ pc[w] = "start"
    BY <1>3 DEF Start, Goto
  <2>2. status' \in Statuses /\ "cascade" \in Phases
    BY <1>0, <2>1 DEF Merged, RowShape, Phases, Synced
  \* A copy read before the completion is refused.
  <2>3. status' /= "COMPLETED"
    BY <2>1 DEF Merged, Conflict, CompletionSeen
  <2>4. status = "COMPLETED" => Latecomer(w)
    BY <2>1 DEF Conflict, CompletionSeen, Latecomer
  <2>5. stampMoved' \in [Workers -> BOOLEAN]
    BY <2>1 DEF Stamp, RowShape
  <2>6. FinalInv'
    BY <2>1, <2>2, <2>3, <2>5 DEF RowShape, BegunUnfinished, CompletionSeen
  <2>7. QED
    BY <2>4, <2>6
<1>4. CASE StartRefused(w) \/ CommitRefused(w)
  <2>1. UNCHANGED <<status, baseStatus, stampMoved>> /\ Goto(w, "nak")
    BY <1>4 DEF StartRefused, CommitRefused, job, base
  <2>2. QED
    BY <1>0, <2>1, CopiesKept DEF RowShape
<1>5. CASE Cascade(w) \/ Look(w) \/ CascadeFails(w) \/ LookFails(w)
  <2>1. PICK p \in {"look", "commit", "giveBack"} : Goto(w, p)
    BY <1>5 DEF Cascade, Look, CascadeFails, LookFails
  <2>2. UNCHANGED <<status, baseStatus, stampMoved>> /\ pc[w] \in PastStart
    BY <1>5 DEF Cascade, Look, CascadeFails, LookFails, job, base, PastStart
  <2>3. p \in Phases /\ p /= "start" /\ baseStatus[w] /= "COMPLETED"
    BY <2>2 DEF Phases, Synced, BegunUnfinished
  <2>4. QED
    BY <2>1, <2>2, <2>3, CopiesKept DEF RowShape
<1>6. CASE Commit(w)
  <2>1. /\ status' = "COMPLETED"
        /\ pc' = [pc EXCEPT ![w] = "idle"]
        /\ baseStatus' = [baseStatus EXCEPT ![w] = "none"]
        /\ stampMoved' = [Stamp(stampMoved, w) EXCEPT ![w] = FALSE]
    BY <1>6 DEF Commit, Goto
  <2>2. "idle" \in Phases /\ "none" \in Statuses /\ "start" \in Synced
    BY DEF Phases, Statuses, Synced
  <2>3. RowShape'
    BY <1>0, <2>1, <2>2 DEF RowShape, Stamp
  <2>4. BegunUnfinished'
    BY <2>1 DEF RowShape, BegunUnfinished, PastStart
  \* Every other copy is marked as left behind.
  <2>5. CompletionSeen'
    BY <2>1, <2>2 DEF RowShape, CompletionSeen, Stamp
  <2>6. QED
    BY <2>1, <2>3, <2>4, <2>5
<1>7. CASE GiveBack(w)
  <2>1. /\ pc[w] = "giveBack" /\ pc' = [pc EXCEPT ![w] = "nak"]
        /\ baseStatus' = baseStatus
    BY <1>7 DEF GiveBack, Goto
  <2>2. baseStatus[w] /= "COMPLETED" /\ "nak" \in Phases
    BY <2>1 DEF BegunUnfinished, PastStart, Phases
  <2>3. /\ status' \in Statuses
        /\ status = "COMPLETED" <=> status' = "COMPLETED"
    BY <1>0, <1>7, <2>2 DEF GiveBack, Merged, Conflict, RowShape, job
  <2>4. \/ stampMoved' = stampMoved
        \/ stampMoved' = Stamp(stampMoved, w)
    BY <1>7 DEF GiveBack
  <2>5. RowShape'
    BY <2>1, <2>2, <2>3, <2>4 DEF RowShape, Stamp
  <2>6. BegunUnfinished' /\ CompletionSeen'
    BY <2>1, <2>3, <2>4
       DEF RowShape, BegunUnfinished, CompletionSeen, PastStart,
                            Stamp
  <2>7. QED
    BY <2>3, <2>5, <2>6
<1>8. CASE Nak(w) \/ DeadLetter(w) \/ Crash(w)
  <2>1. Leave(w) /\ UNCHANGED job
    BY <1>8 DEF Nak, DeadLetter, Crash
  <2>2. QED
    BY <2>1, LeaversForget DEF job
<1>9. QED
  BY <1>1, <1>2, <1>3, <1>4, <1>5, <1>6, <1>7, <1>8 DEF Handle

(* So does everybody else: a job that is over is neither confirmed nor     *)
(* dispatched again (_recover_expired_work_dispatches).                    *)
LEMMA OthersKeepFinal ==
    ASSUME FinalInv,
           Create \/ Confirm \/ LeaseExpires \/ Overrun \/ Redispatch
             \/ Review \/ Promote \/ UNCHANGED vars
    PROVE  FinalInv' /\ (status = "COMPLETED" => status' = "COMPLETED")
<1>1. UNCHANGED <<pc, baseStatus, stampMoved>>
  BY DEF Create, Confirm, LeaseExpires, Overrun, LeaseOver, Redispatch, Review,
         Promote, vars, base
<1>2. CASE Create \/ Confirm \/ Redispatch
  <2>1. /\ status' \in Statuses
        /\ status = "COMPLETED" <=> status' = "COMPLETED"
    BY <1>2
       DEF Create, Confirm, Redispatch, Claimable, job, Statuses,
           FinalInv,
                RowShape
  <2>2. QED
    BY <1>1, <2>1 DEF FinalInv, RowShape, BegunUnfinished, CompletionSeen
<1>3. CASE LeaseExpires \/ Overrun \/ Review \/ Promote \/ UNCHANGED vars
  <2>1. status' = status
    BY <1>3 DEF LeaseExpires, Overrun, LeaseOver, Review, Promote, vars, job
  <2>2. QED
    BY <1>1, <2>1 DEF FinalInv, RowShape, BegunUnfinished, CompletionSeen
<1>4. QED
  BY <1>2, <1>3

(* A job that is completed stays completed, although workers whose lease   *)
(* ran out still write their own outcome of it, unless one of them read    *)
(* the row only after the completion (_execute_deletion_job).              *)
THEOREM CompletedStays == Spec => CompletedIsFinal
<1>1. FinalInv /\ [Next]_vars => FinalInv'
  BY WorkersKeepFinal, OthersKeepFinal DEF Next, Faults
<1>2. FinalInv /\ [Next]_vars =>
        [status = "COMPLETED" /\ ~(\E w \in Workers : Latecomer(w))
           => status' = "COMPLETED"]_vars
  BY WorkersKeepFinal, OthersKeepFinal DEF Next, Faults
<1>3. QED
  BY FinalStarts, <1>1, <1>2, PTL DEF Spec, CompletedIsFinal

-----------------------------------------------------------------------------
(***************************************************************************)
(* Types, and with them the number of commands: every copy is in the       *)
(* stream or in the hand of one worker, and there are none before the job  *)
(* is confirmed.                                                           *)
(***************************************************************************)

InHand ==
    /\ IsFiniteSet(Holding)
    /\ msgs + Cardinality(Holding) <= MaxMsgs
    /\ status \in {"none", "AWAITING_CONFIRMATION"} => msgs = 0 /\ Holding = {}

TypeInv == TypeOK /\ InHand

(* A worker that goes from one step of its handler to another still has    *)
(* its command in hand (_consume).                                         *)
LEMMA StillInHand ==
    ASSUME TypeOK, NEW w \in Workers, pc[w] /= "idle",
           NEW p \in Phases, p /= "idle", Goto(w, p)
    PROVE  pc' \in [Workers -> Phases] /\ Holding' = Holding
<1>1. pc' = [pc EXCEPT ![w] = p] /\ pc \in [Workers -> Phases]
  BY DEF Goto, TypeOK
<1>2. \A v \in Workers : pc'[v] /= "idle" <=> pc[v] /= "idle"
  BY <1>1
<1>3. QED
  BY <1>1, <1>2 DEF Holding

(* A worker that is idle has taken its command from the stream (_consume).  *)
LEMMA TakenInHand ==
    ASSUME TypeInv, NEW w \in Workers, pc[w] = "idle", msgs > 0,
           msgs' = msgs - 1,
           NEW p \in Phases, p /= "idle", Goto(w, p)
    PROVE  /\ pc' \in [Workers -> Phases]
           /\ msgs' \in 0 .. MaxMsgs
           /\ IsFiniteSet(Holding') /\ msgs' + Cardinality(Holding') <= MaxMsgs
<1>1. pc' = [pc EXCEPT ![w] = p] /\ pc \in [Workers -> Phases]
  BY DEF Goto, TypeInv, TypeOK
<1>2. \A v \in Workers : pc'[v] /= "idle" <=> v = w \/ pc[v] /= "idle"
  BY <1>1
<1>3. Holding' = Holding \cup {w} /\ w \notin Holding
  BY <1>2 DEF Holding
<1>4. IsFiniteSet(Holding) /\ Cardinality(Holding) \in Nat
  BY FS_CardinalityType DEF TypeInv, InHand
<1>5. /\ IsFiniteSet(Holding')
      /\ Cardinality(Holding') = Cardinality(Holding) + 1
  BY <1>3, <1>4, FS_AddElement
<1>6. QED
  BY <1>1, <1>4, <1>5, MsgsAssumption DEF TypeInv, TypeOK, InHand

(* A worker that is done with its command has it in hand no longer, and    *)
(* gives it back to the stream at most once (_consume).                    *)
LEMMA OutOfHand ==
    ASSUME TypeInv, NEW w \in Workers, pc[w] /= "idle", Goto(w, "idle"),
           msgs' \in {msgs, msgs + 1}
    PROVE  /\ pc' \in [Workers -> Phases]
           /\ msgs' \in 0 .. MaxMsgs
           /\ IsFiniteSet(Holding') /\ msgs' + Cardinality(Holding') <= MaxMsgs
<1>1. pc' = [pc EXCEPT ![w] = "idle"] /\ pc \in [Workers -> Phases]
  BY DEF Goto, TypeInv, TypeOK
<1>2. \A v \in Workers : pc'[v] /= "idle" <=> v /= w /\ pc[v] /= "idle"
  BY <1>1
<1>3. Holding' = Holding \ {w} /\ w \in Holding
  BY <1>2 DEF Holding
<1>4. IsFiniteSet(Holding) /\ Cardinality(Holding) \in Nat
  BY FS_CardinalityType DEF TypeInv, InHand
<1>5. /\ IsFiniteSet(Holding')
      /\ Cardinality(Holding') = Cardinality(Holding) - 1
  BY <1>3, <1>4, FS_RemoveElement
<1>6. IsFiniteSet(Holding') /\ Cardinality(Holding') \in Nat
  BY <1>5, FS_CardinalityType
<1>7. "idle" \in Phases
  BY DEF Phases
<1>8. QED
  BY <1>1, <1>4, <1>5, <1>6, <1>7, MsgsAssumption DEF TypeInv, TypeOK, InHand

(* Nothing was sent for a job that was not asked for (create_deletion_job). *)
LEMMA TypesStart == Init => TypeInv
<1> SUFFICES ASSUME Init PROVE TypeInv
  OBVIOUS
<1>1. TypeOK
  <2>1. global \in BOOLEAN
    BY RequestersAssumption, Zenon DEF Init
  <2>2. msgs \in 0 .. MaxMsgs /\ faults \in [FaultKinds -> Nat]
    BY MsgsAssumption DEF Init
  <2>3. QED
    BY <2>1, <2>2 DEF Init, TypeOK, Statuses, Entities, Phases, Synced
<1>2. Holding = {}
  BY DEF Init, Holding
<1>3. IsFiniteSet(Holding) /\ Cardinality(Holding) = 0
  BY <1>2, FS_EmptySet
<1>4. QED
  BY <1>1, <1>2, <1>3, MsgsAssumption DEF Init, TypeInv, InHand

(* The counters of the faults stay numbers (DeadLetter, Crash, ...).        *)
LEMMA FaultsCounted ==
    ASSUME TypeOK, NEW k \in FaultKinds, Fault(k)
    PROVE  faults' \in [FaultKinds -> Nat]
  BY DEF TypeOK, Fault

(* Every step of a worker keeps the types and the count of the commands    *)
(* (_execute_deletion_job, _consume).                                      *)
LEMMA WorkersKeepTypes ==
    ASSUME TypeInv, NEW w \in Workers,
           Deliver(w) \/ Handle(w) \/ CascadeFails(w) \/ LookFails(w)
             \/ DeadLetter(w) \/ Crash(w)
    PROVE  TypeInv'
<1>0. /\ {"idle", "claimed", "nak"} \subseteq Phases
      /\ {"start", "cascade", "look", "commit", "giveBack"} \subseteq Phases
      /\ {"none", "PROCESSING", "COMPLETED"} \subseteq Statuses
      /\ TypeOK
      /\ {"crash", "fail", "dead"} \subseteq FaultKinds
      /\ "absent" \in Entities
  BY DEF Phases, Synced, Statuses, TypeInv, FaultKinds, Entities
<1>a. \A moved \in [Workers -> BOOLEAN] :
         Stamp(moved, w) \in [Workers -> BOOLEAN]
  BY DEF Stamp
\* Once a command is about the job has been confirmed.
<1>b. /\ pc[w] /= "idle" => status \notin {"none", "AWAITING_CONFIRMATION"}
      /\ msgs > 0 => status \notin {"none", "AWAITING_CONFIRMATION"}
  BY DEF TypeInv, InHand, Holding, TypeOK
<1>1. CASE Deliver(w)
  <2>1. /\ pc[w] = "idle" /\ msgs > 0 /\ msgs' = msgs - 1
        /\ UNCHANGED <<ent, cascaded, faults, seen, baseStatus, stampMoved>>
    BY <1>1 DEF Deliver
  <2>2. /\ status' \in {status, "PROCESSING"} /\ lease' \in {lease, "live"}
        /\ leaseMoved' \in {leaseMoved, Stamp(leaseMoved, w)}
    BY <1>1 DEF Deliver, job
  <2>3. pc' = pc \/ Goto(w, "claimed") \/ Goto(w, "nak")
    BY <1>1 DEF Deliver
  <2>4. /\ pc' \in [Workers -> Phases] /\ msgs' \in 0 .. MaxMsgs
        /\ IsFiniteSet(Holding') /\ msgs' + Cardinality(Holding') <= MaxMsgs
    <3>1. CASE pc' = pc
      <4>1. Holding' = Holding
        BY <3>1 DEF Holding
      <4>2. IsFiniteSet(Holding) /\ Cardinality(Holding) \in Nat
        BY FS_CardinalityType DEF TypeInv, InHand
      <4>3. QED
        BY <2>1, <3>1, <4>1, <4>2, MsgsAssumption DEF TypeInv, TypeOK, InHand
    <3>2. CASE Goto(w, "claimed")
      BY <1>0, <2>1, <3>2, TakenInHand
    <3>3. CASE Goto(w, "nak")
      BY <1>0, <2>1, <3>3, TakenInHand
    <3>4. QED
      BY <2>3, <3>1, <3>2, <3>3
  <2>5. TypeOK'
    BY <1>0, <1>a, <2>1, <2>2, <2>4 DEF TypeOK, ent
  <2>6. status' \notin {"none", "AWAITING_CONFIRMATION"}
    BY <1>b, <2>1, <2>2
  <2>7. QED
    BY <2>4, <2>5, <2>6 DEF TypeInv, InHand
<1>2. CASE Reread(w) \/ Start(w) \/ StartRefused(w) \/ Cascade(w) \/ Look(w)
             \/ CommitRefused(w) \/ GiveBack(w) \/ CascadeFails(w) \/ LookFails(w)
  <2>1. pc[w] /= "idle" /\ UNCHANGED <<msgs, entity, revived, global>>
    BY <1>2
       DEF Reread, Start, StartRefused, Cascade, Look, CommitRefused, GiveBack,
           CascadeFails, LookFails, ent
  <2>2. PICK p \in {"start", "nak", "cascade", "look", "commit", "giveBack"} :
           Goto(w, p)
    BY <1>2
       DEF Reread, Start, StartRefused, Cascade, Look, CommitRefused, GiveBack,
           CascadeFails, LookFails
  <2>3. pc' \in [Workers -> Phases] /\ Holding' = Holding
    BY <1>0, <2>1, <2>2, StillInHand
  <2>4. status' \in {status, "PROCESSING"} /\ lease' \in {lease, "over"}
    BY <1>2
       DEF Reread, Start, StartRefused, Cascade, Look, CommitRefused, GiveBack,
           CascadeFails, LookFails, Merged, job
  <2>5. status' \in Statuses
    BY <1>0, <2>4 DEF TypeOK
  <2>6. /\ leaseMoved' \in [Workers -> BOOLEAN]
        /\ stampMoved' \in [Workers -> BOOLEAN]
        /\ baseStatus' \in [Workers -> Statuses]
    <3>1. CASE Reread(w)
      BY <1>0, <3>1 DEF Reread, TypeOK
    <3>2. CASE Start(w)
      <4>1. /\ leaseMoved' = [leaseMoved EXCEPT ![w] = FALSE]
            /\ stampMoved' = Stamp(stampMoved, w)
            /\ baseStatus' = [baseStatus EXCEPT ![w] = status']
        BY <3>2 DEF Start
      <4>2. QED
        BY <1>0, <1>a, <2>5, <4>1 DEF TypeOK
    <3>3. CASE GiveBack(w)
      <4>1. /\ baseStatus' = baseStatus
            /\ leaseMoved' \in {leaseMoved, Stamp(leaseMoved, w)}
            /\ stampMoved' \in {stampMoved, Stamp(stampMoved, w)}
        BY <3>3 DEF GiveBack
      <4>2. QED
        BY <1>0, <1>a, <4>1 DEF TypeOK
    <3>4. CASE StartRefused(w) \/ Cascade(w) \/ Look(w) \/ CommitRefused(w)
                 \/ CascadeFails(w) \/ LookFails(w)
      <4>1. UNCHANGED base
        BY <3>4
           DEF StartRefused, Cascade, Look, CommitRefused, CascadeFails,
               LookFails
      <4>2. QED
        BY <1>0, <4>1 DEF TypeOK, base
    <3>5. QED
      BY <1>2, <3>1, <3>2, <3>3, <3>4
  <2>7. faults' \in [FaultKinds -> Nat]
    <3>1. CASE CascadeFails(w) \/ LookFails(w)
      BY <1>0, <3>1, FaultsCounted DEF CascadeFails, LookFails
    <3>2. CASE ~(CascadeFails(w) \/ LookFails(w))
      <4>1. faults' = faults
        BY <1>2, <3>2
           DEF Reread, Start, StartRefused, Cascade, Look, CommitRefused,
               GiveBack
      <4>2. QED
        BY <1>0, <4>1 DEF TypeOK
    <3>3. QED
      BY <3>1, <3>2
  <2>8. cascaded' \in BOOLEAN /\ seen' \in [Workers -> Entities \cup {"unread"}]
    <3>1. cascaded' \in {cascaded, TRUE}
      BY <1>2
         DEF Reread, Start, StartRefused, Cascade, Look, CommitRefused,
             GiveBack, CascadeFails, LookFails
    <3>2. seen' = seen \/ seen' = [seen EXCEPT ![w] = entity]
      BY <1>2
         DEF Reread, Start, StartRefused, Cascade, Look, CommitRefused,
             GiveBack, CascadeFails, LookFails
    <3>3. cascaded \in BOOLEAN
      BY <1>0 DEF TypeOK
    <3>4. cascaded' \in BOOLEAN
      BY <3>1, <3>3
    <3>5. QED
      BY <1>0, <3>2, <3>4 DEF TypeOK
  <2>9. TypeOK'
    BY <1>0, <2>1, <2>3, <2>4, <2>5, <2>6, <2>7, <2>8 DEF TypeOK
  <2>10. InHand'
    BY <1>b, <2>1, <2>3, <2>4 DEF TypeInv, InHand
  <2>11. QED
    BY <2>9, <2>10 DEF TypeInv
<1>3. CASE Commit(w) \/ Nak(w) \/ DeadLetter(w) \/ Crash(w)
  <2>1. /\ pc[w] /= "idle" /\ Goto(w, "idle")
        /\ msgs' \in {msgs, msgs + 1}
        /\ UNCHANGED <<lease, global, revived, cascaded>>
        /\ seen' = [seen EXCEPT ![w] = "unread"]
        /\ baseStatus' = [baseStatus EXCEPT ![w] = "none"]
        /\ leaseMoved' = [leaseMoved EXCEPT ![w] = FALSE]
    BY <1>3 DEF Commit, Nak, DeadLetter, Crash, Leave, job, ent
  <2>2. stampMoved' = [stampMoved EXCEPT ![w] = FALSE]
          \/ stampMoved' = [Stamp(stampMoved, w) EXCEPT ![w] = FALSE]
    BY <1>3 DEF Commit, Nak, DeadLetter, Crash, Leave
  <2>3. /\ status' \in {status, "COMPLETED"}
        /\ entity' \in {entity, "absent"}
    BY <1>3 DEF Commit, Nak, DeadLetter, Crash, job, ent
  <2>4. faults' \in [FaultKinds -> Nat]
    <3>1. CASE DeadLetter(w) \/ Crash(w)
      BY <1>0, <3>1, FaultsCounted DEF DeadLetter, Crash
    <3>2. CASE Commit(w) \/ Nak(w)
      BY <1>0, <3>2 DEF Commit, Nak, TypeOK
    <3>3. QED
      BY <1>3, <3>1, <3>2
  <2>5. /\ pc' \in [Workers -> Phases] /\ msgs' \in 0 .. MaxMsgs
        /\ IsFiniteSet(Holding') /\ msgs' + Cardinality(Holding') <= MaxMsgs
    BY <2>1, OutOfHand
  <2>6. /\ stampMoved' \in [Workers -> BOOLEAN]
        /\ leaseMoved' \in [Workers -> BOOLEAN]
        /\ baseStatus' \in [Workers -> Statuses]
        /\ seen' \in [Workers -> Entities \cup {"unread"}]
    BY <1>0, <1>a, <2>1, <2>2 DEF TypeOK
  <2>7. TypeOK'
    BY <1>0, <2>1, <2>3, <2>4, <2>5, <2>6 DEF TypeOK
  <2>8. status' \notin {"none", "AWAITING_CONFIRMATION"}
    BY <1>b, <2>1, <2>3
  <2>9. QED
    BY <2>5, <2>7, <2>8 DEF TypeInv, InHand
<1>4. QED
  BY <1>1, <1>2, <1>3 DEF Handle

(* So does everybody else: the confirmation sends the first command, and   *)
(* the reconciler one more (confirm_deletion_job,                          *)
(* _recover_expired_work_dispatches).                                      *)
LEMMA OthersKeepTypes ==
    ASSUME TypeInv,
           Create \/ Confirm \/ LeaseExpires \/ Overrun \/ Redispatch
             \/ Review \/ Promote \/ UNCHANGED vars
    PROVE  TypeInv'
<1>1. UNCHANGED <<pc, seen, baseStatus, stampMoved, cascaded, global>>
  BY DEF Create, Confirm, LeaseExpires, Overrun, LeaseOver, Redispatch, Review,
         Promote, vars, base, ent
<1>2. Holding' = Holding
  BY <1>1 DEF Holding
<1>3. /\ IsFiniteSet(Holding) /\ Cardinality(Holding) \in Nat
      /\ TypeOK /\ Cardinality({}) = 0
      /\ {"overrun", "promote"} \subseteq FaultKinds
  BY FS_CardinalityType, FS_EmptySet DEF TypeInv, InHand, FaultKinds
<1>4. faults' \in [FaultKinds -> Nat]
  <2>1. CASE Overrun \/ Promote
    BY <1>3, <2>1, FaultsCounted DEF Overrun, Promote
  <2>2. CASE Create \/ Confirm \/ LeaseExpires \/ Redispatch \/ Review
               \/ UNCHANGED vars
    <3>1. faults' = faults
      BY <2>2 DEF Create, Confirm, LeaseExpires, Redispatch, Review, vars
    <3>2. QED
      BY <1>3, <3>1 DEF TypeOK
  <2>3. QED
    BY <2>1, <2>2
<1>5. CASE Create \/ Confirm
  <2>1. UNCHANGED <<entity, revived, leaseMoved, lease>>
    BY <1>5 DEF Create, Confirm, ent, base
  <2>2. /\ status' \in {"AWAITING_CONFIRMATION", "QUEUED"}
        /\ status \in {"none", "AWAITING_CONFIRMATION"}
        /\ msgs' = 0 \/ (msgs' = 1 /\ status' = "QUEUED" /\ MaxMsgs > 0)
    BY <1>3, <1>5, MsgsAssumption DEF Create, Confirm, TypeInv, InHand, TypeOK
  <2>3. Holding = {}
    BY <2>2 DEF TypeInv, InHand
  <2>4. msgs' \in 0 .. MaxMsgs
    BY <2>2, MsgsAssumption
  <2>5. TypeOK'
    BY <1>1, <1>3, <1>4, <2>1, <2>2, <2>4 DEF TypeOK, Statuses
  <2>6. InHand'
    BY <1>2, <1>3, <2>2, <2>3, MsgsAssumption DEF InHand
  <2>7. QED
    BY <2>5, <2>6 DEF TypeInv
<1>6. CASE Redispatch
  <2>1. /\ msgs + Cardinality(Holding) < MaxMsgs /\ msgs' = msgs + 1
        /\ status \in {"QUEUED", "PROCESSING"} /\ status' = "QUEUED"
        /\ lease' \in {lease, "none"}
        /\ UNCHANGED <<entity, revived>>
    BY <1>6 DEF Redispatch, Claimable, job, ent
  <2>2. leaseMoved' \in [Workers -> BOOLEAN]
    BY <1>3, <1>6 DEF Redispatch, TypeOK
  <2>3. msgs' \in 0 .. MaxMsgs /\ msgs' + Cardinality(Holding) <= MaxMsgs
    BY <1>3, <2>1, MsgsAssumption DEF TypeOK
  <2>4. TypeOK'
    BY <1>1, <1>3, <1>4, <2>1, <2>2, <2>3 DEF TypeOK, Statuses
  <2>5. InHand'
    BY <1>2, <1>3, <2>1, <2>3 DEF InHand
  <2>6. QED
    BY <2>4, <2>5 DEF TypeInv
<1>7. CASE LeaseExpires \/ Overrun \/ Review \/ Promote \/ UNCHANGED vars
  <2>1. /\ UNCHANGED <<status, msgs, leaseMoved>>
        /\ lease' \in {lease, "over"}
        /\ entity' \in {entity, "CANDIDATE", "APPROVED", "REJECTED"}
    BY <1>7
       DEF LeaseExpires, Overrun, LeaseOver, Review, Promote, vars, job, ent,
           base
  <2>2. revived' \in BOOLEAN
    <3>1. CASE Promote
      BY <1>3, <3>1 DEF Promote
    <3>2. CASE LeaseExpires \/ Overrun \/ Review \/ UNCHANGED vars
      <4>1. revived' = revived
        BY <3>2 DEF LeaseExpires, Overrun, LeaseOver, Review, vars, ent
      <4>2. QED
        BY <1>3, <4>1 DEF TypeOK
    <3>3. QED
      BY <1>7, <3>1, <3>2
  <2>3. TypeOK'
    BY <1>1, <1>3, <1>4, <2>1, <2>2 DEF TypeOK, Entities
  <2>4. InHand'
    BY <1>2, <2>1 DEF TypeInv, InHand
  <2>5. QED
    BY <2>3, <2>4 DEF TypeInv
<1>8. QED
  BY <1>5, <1>6, <1>7

(* Every variable keeps its type, and the copies of the command never      *)
(* exceed their bound, in the stream and in the hands of the workers       *)
(* together (_consume, _recover_expired_work_dispatches).                  *)
THEOREM DeletionTypes == Spec => []TypeOK
<1>1. TypeInv /\ [Next]_vars => TypeInv'
  BY WorkersKeepTypes, OthersKeepTypes DEF Next, Faults
<1>2. TypeInv => TypeOK
  BY DEF TypeInv
<1>3. QED
  BY TypesStart, <1>1, <1>2, PTL DEF Spec

-----------------------------------------------------------------------------
(***************************************************************************)
(* What the lease is for.  It has no heartbeat, so that it may run out     *)
(* under a worker; as long as it never does, one worker at a time has the  *)
(* job, it has it until it leaves, and its copy of the row is the row.     *)
(***************************************************************************)

\* Whoever works has the lease, alone, and nothing has left its copy behind.
Alone ==
    /\ \A w \in Working : status = "PROCESSING" /\ lease = "live"
    /\ \A v, w \in Working : v = w
    /\ \A w \in Workers : pc[w] \in Synced => baseStatus[w] = "PROCESSING"
    /\ \A w \in Workers : ~leaseMoved[w] /\ ~stampMoved[w]

AloneInv == TypeInv /\ (faults["overrun"] = 0 => Alone)

(* A lease that has run out under a worker has done so for ever after: the *)
(* count of such faults never goes down.                                   *)
LEMMA OverrunsStay ==
    ASSUME TypeOK, [Next]_vars
    PROVE  /\ faults'["overrun"] = 0 => faults["overrun"] = 0
           /\ Overrun => faults'["overrun"] /= 0
<1>1. faults \in [FaultKinds -> Nat]
      /\ FaultKinds = {"crash", "fail", "overrun", "dead", "promote"}
  BY DEF TypeOK, FaultKinds
<1>2. \/ faults' = faults
      \/ \E k \in FaultKinds : faults' = [faults EXCEPT ![k] = @ + 1]
  BY <1>1
     DEF Next, Faults, Handle, Create, Confirm, Deliver, Reread, Start,
         StartRefused, Cascade, Look, Commit, CommitRefused, GiveBack, Nak,
         LeaseExpires, Redispatch, Review, Promote, CascadeFails, LookFails,
         DeadLetter, Crash, Overrun, Fault, vars
<1>3. faults'["overrun"] = 0 => faults["overrun"] = 0
  BY <1>1, <1>2
<1>4. Overrun => faults'["overrun"] = faults["overrun"] + 1
  BY <1>1 DEF Overrun, Fault
<1>5. QED
  BY <1>1, <1>3, <1>4

(* A write of the only worker that has read the row leaves no other copy   *)
(* behind (_execute_deletion_job).                                         *)
LEMMA NobodyLeftBehind ==
    ASSUME Alone, NEW w \in Workers, \A v \in Workers \ {w} : pc[v] \notin Synced
    PROVE  \A v \in Workers :
              ~Stamp(leaseMoved, w)[v] /\ ~Stamp(stampMoved, w)[v]
<1> SUFFICES ASSUME NEW v \in Workers
             PROVE  ~Stamp(leaseMoved, w)[v] /\ ~Stamp(stampMoved, w)[v]
  OBVIOUS
<1>1. v = w \/ pc[v] \notin Synced
  OBVIOUS
<1>2. ~leaseMoved[v] /\ ~stampMoved[v]
  BY DEF Alone
<1>3. QED
  BY <1>1, <1>2 DEF Stamp

(* Who moves on with the lease, and with a copy of the row that is still   *)
(* the row, is as alone as before (_execute_deletion_job).                 *)
LEMMA StaysAlone ==
    ASSUME Alone, TypeOK, NEW w \in Working, NEW p \in Synced, Goto(w, p),
           status' = "PROCESSING", lease' = "live",
           \/ baseStatus' = baseStatus /\ baseStatus[w] = "PROCESSING"
           \/ baseStatus' = [baseStatus EXCEPT ![w] = "PROCESSING"],
           \A v \in Workers : ~leaseMoved'[v] /\ ~stampMoved'[v]
    PROVE  Alone'
<1>1. /\ w \in Workers /\ pc' = [pc EXCEPT ![w] = p]
      /\ pc \in [Workers -> Phases] /\ baseStatus \in [Workers -> Statuses]
  BY DEF Working, Goto, TypeOK
<1>2. pc'[w] = p /\ \A v \in Workers \ {w} : pc'[v] = pc[v]
  BY <1>1
<1>3. Working' = Working
  BY <1>1, <1>2 DEF Working
<1>4. \A v \in Workers : pc'[v] \in Synced => v = w
  BY <1>2 DEF Alone, Working
<1>5. baseStatus'[w] = "PROCESSING"
  BY <1>1
<1>6. QED
  BY <1>3, <1>4, <1>5 DEF Alone

(* Who lets go of the job leaves nobody at work (_consume).                *)
LEMMA LeavesNobody ==
    ASSUME Alone, TypeOK, NEW w \in Working,
           NEW p \in {"idle", "nak"}, Goto(w, p),
           \A v \in Workers : ~leaseMoved'[v] /\ ~stampMoved'[v]
    PROVE  Alone'
<1>1. /\ w \in Workers /\ pc' = [pc EXCEPT ![w] = p]
      /\ pc \in [Workers -> Phases]
  BY DEF Working, Goto, TypeOK
<1>2. pc'[w] = p /\ \A v \in Workers \ {w} : pc'[v] = pc[v]
  BY <1>1
<1>3. \A v \in Workers : pc'[v] \notin Synced \cup {"claimed"}
  BY <1>2 DEF Alone, Working, Synced
<1>4. Working' = {}
  BY <1>3 DEF Working
<1>5. QED
  BY <1>3, <1>4 DEF Alone

(* Every step of a worker keeps the others away, as long as no lease runs  *)
(* out under one (_execute_deletion_job, _consume).                        *)
LEMMA WorkersKeepAlone ==
    ASSUME Alone, TypeOK, NEW w \in Workers,
           Deliver(w) \/ Handle(w) \/ CascadeFails(w) \/ LookFails(w)
             \/ DeadLetter(w) \/ Crash(w)
    PROVE  Alone'
<1>0. pc \in [Workers -> Phases] /\ baseStatus \in [Workers -> Statuses]
  BY DEF TypeOK
<1>a. pc[w] \in Synced => \A v \in Workers \ {w} : pc[v] \notin Synced
  BY DEF Alone, Working
<1>b. pc[w] \in Synced =>
         \A v \in Workers :
            ~Stamp(leaseMoved, w)[v] /\ ~Stamp(stampMoved, w)[v]
  BY <1>a, NobodyLeftBehind
<1>c. \A v \in Workers : ~leaseMoved[v] /\ ~stampMoved[v]
  BY DEF Alone
<1>d. pc[w] \in Synced =>
         /\ w \in Working /\ status = "PROCESSING" /\ lease = "live"
         /\ baseStatus[w] = "PROCESSING" /\ ~leaseMoved[w] /\ ~stampMoved[w]
  BY DEF Alone, Working
<1>1. CASE Deliver(w)
  <2>1. /\ pc[w] = "idle" /\ UNCHANGED <<baseStatus, stampMoved>>
    BY <1>1 DEF Deliver
  <2>2. CASE UNCHANGED <<job, pc, leaseMoved>>
    BY <2>1, <2>2 DEF Alone, Working, job
  <2>3. CASE UNCHANGED <<job, leaseMoved>> /\ Goto(w, "nak")
    <3>1. pc' = [pc EXCEPT ![w] = "nak"]
      BY <2>3 DEF Goto
    <3>2. \A v \in Workers : pc'[v] = pc[v] \/ (v = w /\ pc'[v] = "nak")
      BY <1>0, <3>1
    <3>3. Working' = Working
      BY <2>1, <3>1, <1>0 DEF Working, Synced
    <3>4. QED
      BY <2>1, <2>3, <3>2, <3>3 DEF Alone, Synced, job
  \* The lease is taken from nobody.
  <2>4. CASE Claimable /\ status' = "PROCESSING" /\ lease' = "live"
             /\ leaseMoved' = Stamp(leaseMoved, w) /\ Goto(w, "claimed")
    <3>1. Working = {}
      BY <2>4 DEF Claimable, Alone
    <3>2. \A v \in Workers : pc[v] \notin Synced
      BY <3>1 DEF Working
    <3>3. pc' = [pc EXCEPT ![w] = "claimed"]
      BY <2>4 DEF Goto
    <3>4. pc'[w] = "claimed" /\ \A v \in Workers \ {w} : pc'[v] = pc[v]
      BY <1>0, <3>3
    <3>5. Working' = {w}
      BY <3>1, <3>4 DEF Working
    <3>6. \A v \in Workers : pc'[v] \notin Synced
      BY <3>2, <3>4 DEF Synced
    <3>7. \A v \in Workers : ~leaseMoved'[v] /\ ~stampMoved'[v]
      BY <1>c, <2>1, <2>4, <3>2, NobodyLeftBehind
    <3>8. QED
      BY <2>4, <3>5, <3>6, <3>7 DEF Alone
  <2>5. QED
    BY <1>1, <2>2, <2>3, <2>4 DEF Deliver
<1>2. CASE Reread(w)
  <2>1. /\ pc[w] = "claimed" /\ Goto(w, "start")
        /\ baseStatus' = [baseStatus EXCEPT ![w] = status]
        /\ UNCHANGED <<status, lease, leaseMoved, stampMoved>>
    BY <1>2 DEF Reread, job
  <2>2. w \in Working /\ "start" \in Synced
    BY <2>1 DEF Working, Synced
  <2>3. status = "PROCESSING" /\ lease = "live"
    BY <2>2 DEF Alone
  <2>4. QED
    BY <1>c, <2>1, <2>2, <2>3, StaysAlone
<1>3. CASE Start(w)
  <2>1. /\ pc[w] = "start" /\ Goto(w, "cascade")
        /\ status' = Merged(w, "PROCESSING") /\ lease' = lease
        /\ baseStatus' = [baseStatus EXCEPT ![w] = status']
        /\ leaseMoved' = [leaseMoved EXCEPT ![w] = FALSE]
        /\ stampMoved' = Stamp(stampMoved, w)
    BY <1>3 DEF Start
  <2>2. pc[w] \in Synced /\ "cascade" \in Synced
    BY <2>1 DEF Synced
  <2>3. status' = "PROCESSING"
    BY <1>d, <2>1, <2>2 DEF Merged
  <2>4. \A v \in Workers : ~leaseMoved'[v] /\ ~stampMoved'[v]
    <3>1. leaseMoved \in [Workers -> BOOLEAN]
      BY DEF TypeOK
    <3>2. \A v \in Workers : ~leaseMoved'[v]
      BY <1>c, <2>1, <3>1
    <3>3. QED
      BY <1>b, <2>1, <2>2, <3>2
  <2>5. QED
    BY <1>d, <2>1, <2>2, <2>3, <2>4, StaysAlone
\* What is refused to a worker that is not alone is not refused here.
<1>4. CASE StartRefused(w) \/ CommitRefused(w)
  <2>1. pc[w] \in Synced
        /\ (Conflict(w, "PROCESSING") \/ Conflict(w, "COMPLETED"))
    BY <1>4 DEF StartRefused, CommitRefused, Synced
  <2>2. QED
    BY <1>d, <2>1 DEF Conflict
<1>5. CASE Cascade(w) \/ Look(w) \/ CascadeFails(w) \/ LookFails(w)
  <2>1. PICK p \in {"look", "commit", "giveBack"} : Goto(w, p)
    BY <1>5 DEF Cascade, Look, CascadeFails, LookFails
  <2>2. UNCHANGED <<status, lease, baseStatus, leaseMoved, stampMoved>>
        /\ pc[w] \in Synced
    BY <1>5 DEF Cascade, Look, CascadeFails, LookFails, job, base, Synced
  <2>3. p \in Synced
    BY DEF Synced
  <2>4. QED
    BY <1>c, <1>d, <2>1, <2>2, <2>3, StaysAlone
<1>6. CASE Commit(w)
  <2>1. /\ pc[w] \in Synced /\ Goto(w, "idle")
        /\ leaseMoved' = [leaseMoved EXCEPT ![w] = FALSE]
        /\ stampMoved' = [Stamp(stampMoved, w) EXCEPT ![w] = FALSE]
    BY <1>6 DEF Commit, Synced
  <2>2. leaseMoved \in [Workers -> BOOLEAN]
        /\ Stamp(stampMoved, w) \in [Workers -> BOOLEAN]
    BY DEF TypeOK, Stamp
  <2>3. \A v \in Workers : ~leaseMoved'[v]
    BY <1>c, <2>1, <2>2
  <2>4. \A v \in Workers : ~stampMoved'[v]
    BY <1>b, <2>1, <2>2
  <2>5. QED
    BY <1>d, <2>1, <2>3, <2>4, LeavesNobody
<1>7. CASE GiveBack(w)
  <2>1. /\ pc[w] \in Synced /\ Goto(w, "nak")
        /\ leaseMoved' \in {leaseMoved, Stamp(leaseMoved, w)}
        /\ stampMoved' \in {stampMoved, Stamp(stampMoved, w)}
    BY <1>7 DEF GiveBack, Synced
  <2>2. \A v \in Workers : ~leaseMoved'[v] /\ ~stampMoved'[v]
    BY <1>b, <1>c, <2>1
  <2>3. QED
    BY <1>d, <2>1, <2>2, LeavesNobody
<1>8. CASE Nak(w) \/ DeadLetter(w) \/ Crash(w)
  <2>1. /\ pc[w] /= "idle" /\ Goto(w, "idle") /\ UNCHANGED <<status, lease>>
        /\ baseStatus' = [baseStatus EXCEPT ![w] = "none"]
        /\ leaseMoved' = [leaseMoved EXCEPT ![w] = FALSE]
        /\ stampMoved' = [stampMoved EXCEPT ![w] = FALSE]
    BY <1>8 DEF Nak, DeadLetter, Crash, Leave, job
  <2>2. leaseMoved \in [Workers -> BOOLEAN] /\ stampMoved \in [Workers -> BOOLEAN]
    BY DEF TypeOK
  <2>3. \A v \in Workers : ~leaseMoved'[v] /\ ~stampMoved'[v]
    BY <1>c, <2>1, <2>2
  <2>4. pc'[w] = "idle" /\ \A v \in Workers \ {w} : pc'[v] = pc[v]
    BY <1>0, <2>1 DEF Goto
  <2>5. \A v \in Workers \ {w} : baseStatus'[v] = baseStatus[v]
    BY <1>0, <2>1
  <2>6. Working' \subseteq Working
    BY <2>4 DEF Working, Synced
  <2>7. \A v \in Workers : pc'[v] \in Synced => baseStatus'[v] = "PROCESSING"
    BY <2>4, <2>5 DEF Alone, Synced
  <2>8. QED
    BY <2>1, <2>3, <2>6, <2>7 DEF Alone
<1>9. QED
  BY <1>1, <1>2, <1>3, <1>4, <1>5, <1>6, <1>7, <1>8 DEF Handle

(* The reconciler queues a job anew only when its lease has run out, that  *)
(* is, when nobody works on it (_recover_expired_work_dispatches).         *)
LEMMA OthersKeepAlone ==
    ASSUME Alone, TypeOK,
           Create \/ Confirm \/ LeaseExpires \/ Redispatch
             \/ Review \/ Promote \/ UNCHANGED vars
    PROVE  Alone'
<1>1. UNCHANGED <<pc, baseStatus, stampMoved>>
  BY DEF Create, Confirm, LeaseExpires, LeaseOver, Redispatch, Review,
         Promote, vars, base
<1>2. Working' = Working
  BY <1>1 DEF Working
<1>3. CASE Create \/ Confirm \/ LeaseExpires
  <2>1. Working = {} /\ leaseMoved' = leaseMoved
    BY <1>3 DEF Create, Confirm, LeaseExpires, LeaseOver, Alone, base
  <2>2. QED
    BY <1>1, <1>2, <2>1 DEF Alone
<1>4. CASE Redispatch
  <2>1. Working = {}
    BY <1>4 DEF Redispatch, Claimable, Alone
  <2>2. \A v \in Workers : pc[v] \notin Synced
    BY <2>1 DEF Working
  <2>3. \/ leaseMoved' = leaseMoved
        \/ leaseMoved' = [v \in Workers |-> leaseMoved[v] \/ pc[v] \in Synced]
    BY <1>4 DEF Redispatch
  <2>4. \A v \in Workers : ~leaseMoved[v]
    BY DEF Alone
  <2>5. \A v \in Workers : ~leaseMoved'[v]
    BY <2>2, <2>3, <2>4
  <2>6. QED
    BY <1>1, <1>2, <2>1, <2>5 DEF Alone
<1>5. CASE Review \/ Promote \/ UNCHANGED vars
  <2>1. UNCHANGED <<status, lease, leaseMoved>>
    BY <1>5 DEF Review, Promote, vars, job, base
  <2>2. QED
    BY <1>1, <1>2, <2>1 DEF Alone
<1>6. QED
  BY <1>3, <1>4, <1>5

(* The two together, for any step (_execute_deletion_job).                 *)
LEMMA AloneStep == AloneInv /\ [Next]_vars => AloneInv'
<1> SUFFICES ASSUME AloneInv, [Next]_vars PROVE AloneInv'
  OBVIOUS
<1>1. TypeInv' /\ TypeOK
  BY WorkersKeepTypes, OthersKeepTypes DEF AloneInv, TypeInv, Next, Faults
<1>2. ASSUME faults'["overrun"] = 0 PROVE Alone'
  <2>1. Alone /\ ~Overrun
    BY <1>1, <1>2, OverrunsStay DEF AloneInv
  <2>2. QED
    BY <1>1, <2>1, WorkersKeepAlone, OthersKeepAlone DEF Next, Faults
<1>3. QED
  BY <1>1, <1>2 DEF AloneInv

(* Before anything is asked for nobody works (create_deletion_job).        *)
LEMMA AloneStarts == Init => AloneInv
<1> SUFFICES ASSUME Init PROVE AloneInv
  OBVIOUS
<1>1. \A w \in Workers :
         pc[w] \notin Synced \cup {"claimed"} /\ ~leaseMoved[w] /\ ~stampMoved[w]
  BY DEF Init, Synced
<1>2. QED
  BY <1>1, TypesStart DEF AloneInv, Alone, Working

(* While no lease has run out under a worker, one worker at a time works   *)
(* on the job, under its lease, and none of its flushes is refused: the    *)
(* conflicts the handler passes to the consumer, and the outcomes it does  *)
(* not record because the row is no longer its own, are those of a cascade *)
(* that took longer than the lease (_execute_deletion_job).                *)
UndisturbedWorker ==
    faults["overrun"] = 0 =>
        /\ Working /= {} => status = "PROCESSING" /\ lease = "live"
        /\ \A v, w \in Working : v = w
        /\ \A w \in Workers :
              /\ pc[w] \in {"start", "giveBack"} =>
                    ~Conflict(w, "PROCESSING") /\ ~leaseMoved[w]
              /\ pc[w] = "commit" => ~Conflict(w, "COMPLETED")

(* It is so in every reachable state (_execute_deletion_job).              *)
THEOREM OneWorkerWithoutOverrun == Spec => []UndisturbedWorker
<1>1. ASSUME AloneInv PROVE UndisturbedWorker
  <2>1. SUFFICES ASSUME Alone PROVE UndisturbedWorker
    BY <1>1 DEF AloneInv, UndisturbedWorker
  <2>2. \A w \in Workers : pc[w] \in Synced =>
           /\ status = "PROCESSING" /\ baseStatus[w] = "PROCESSING"
           /\ ~stampMoved[w] /\ ~leaseMoved[w]
    BY <2>1 DEF Alone, Working
  <2>3. \A w \in Workers : pc[w] \in Synced =>
           /\ ~Conflict(w, "PROCESSING") /\ ~Conflict(w, "COMPLETED")
           /\ ~leaseMoved[w]
    BY <2>2 DEF Conflict
  <2>4. {"start", "giveBack", "commit"} \subseteq Synced
    BY DEF Synced
  <2>5. QED
    BY <2>1, <2>3, <2>4 DEF UndisturbedWorker, Alone
<1>2. QED
  BY AloneStarts, AloneStep, <1>1, PTL DEF Spec

(* A job that is COMPLETED stays so without exception while no lease has   *)
(* run out under a worker: the latecomers that CompletedIsFinal excepts    *)
(* come from overrun leases only (_execute_deletion_job).                  *)
THEOREM CompletedStaysWithoutOverrun ==
    Spec => [][faults["overrun"] = 0 /\ status = "COMPLETED"
                 => status' = "COMPLETED"]_vars
<1>1. FinalInv /\ [Next]_vars => FinalInv'
  BY WorkersKeepFinal, OthersKeepFinal DEF Next, Faults
<1>2. ASSUME AloneInv, faults["overrun"] = 0, status = "COMPLETED"
      PROVE  \A w \in Workers : ~Latecomer(w)
  <2>1. Working = {}
    BY <1>2 DEF AloneInv, Alone
  <2>2. QED
    BY <2>1 DEF Working, Latecomer, Synced
<1>3. FinalInv /\ AloneInv /\ [Next]_vars =>
        [faults["overrun"] = 0 /\ status = "COMPLETED"
           => status' = "COMPLETED"]_vars
  BY <1>2, WorkersKeepFinal, OthersKeepFinal DEF Next, Faults
<1>4. QED
  BY FinalStarts, AloneStarts, AloneStep, <1>1, <1>3, PTL DEF Spec
=============================================================================
