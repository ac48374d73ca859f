--------------------------- MODULE CandidateReview ---------------------------
(***************************************************************************)
(* What the review of an import promises, without the queues, workers,     *)
(* leases, replays and versions: a candidate is promoted in one step, once *)
(* for each time it was staged, while it is confirmed and its entity is    *)
(* not approved by then.  A cancelled run stages and promotes nothing, but *)
(* for what a worker that comes too late (a straggler) stages in it:       *)
(* neither confirmation nor promotion looks at the status of the run.      *)
(* ImportPromotion implements this (see ImportPromotionReview).            *)
(***************************************************************************)
EXTENDS Naturals, Sequences

CONSTANTS
    Cands,      \* the records of the run
    Statuses,   \* of an entity
    Targets     \* those a candidate is promoted to

VARIABLES
    cancelled,  \* is the run cancelled?
    straggler,  \* has a worker of the preprocessing come too late?
    state,      \* of each candidate
    status,     \* of the entity it is about
    promoted    \* the targets it was promoted to since it was staged

vars == <<cancelled, straggler, state, status, promoted>>

Init ==
    /\ cancelled = FALSE /\ straggler = FALSE
    /\ state = [c \in Cands |-> "unstaged"]
    /\ status \in [Cands -> Statuses]
    /\ promoted = [c \in Cands |-> <<>>]

Stage(c) ==
    /\ ~cancelled /\ state[c] \in {"unstaged", "gone"}
    /\ state' = [state EXCEPT ![c] = "PENDING"]
    /\ promoted' = [promoted EXCEPT ![c] = <<>>]
    /\ UNCHANGED <<cancelled, straggler, status>>

\* Of a straggler: whatever the run and the candidate are by then, which is
\* staged anew, or keeps its review.
StageLate(c) ==
    /\ straggler' = TRUE
    /\ \/ /\ state' = [state EXCEPT ![c] = "PENDING"]
          /\ promoted' = [promoted EXCEPT ![c] = <<>>]
       \/ state[c] \notin {"unstaged", "gone"} /\ UNCHANGED <<state, promoted>>
    /\ UNCHANGED <<cancelled, status>>

Confirm(S) ==
    /\ \A c \in S : state[c] \in {"PENDING", "CONFIRMED"}
    /\ state' = [c \in Cands |-> IF c \in S THEN "CONFIRMED" ELSE state[c]]
    /\ UNCHANGED <<cancelled, straggler, status, promoted>>

Discard(S) ==
    /\ \A c \in S : state[c] /= "unstaged"
    /\ state' = [c \in Cands |-> IF c \in S THEN "gone" ELSE state[c]]
    /\ UNCHANGED <<straggler, status, promoted>>

\* A cancellation, or the end of the review, leaves no candidate to promote.
Close ==
    /\ Discard({c \in Cands : state[c] /= "unstaged"})
    /\ cancelled' \in BOOLEAN

Promote(c, target) ==
    /\ cancelled => straggler
    /\ state[c] = "CONFIRMED" /\ status[c] /= "APPROVED"
    /\ state' = [state EXCEPT ![c] = "PROCESSED"]
    /\ status' = [status EXCEPT ![c] = target]
    /\ promoted' = [promoted EXCEPT ![c] = <<target>>]
    /\ UNCHANGED <<cancelled, straggler>>

\* Reviewers approve, reject and retire entities meanwhile.
ReviewEntity(c, to) ==
    /\ \/ status[c] = "CANDIDATE" /\ to \in {"APPROVED", "REJECTED"}
       \/ status[c] = "APPROVED" /\ to = "RETIRED"
    /\ status' = [status EXCEPT ![c] = to]
    /\ UNCHANGED <<cancelled, straggler, state, promoted>>

Next ==
    \/ \E c \in Cands : Stage(c) \/ StageLate(c)
    \/ \E c \in Cands : Discard({c}) /\ UNCHANGED cancelled
    \/ \E S \in SUBSET Cands : Confirm(S)
    \/ Close
    \/ \E c \in Cands, t \in Targets : Promote(c, t)
    \/ \E c \in Cands, s \in Statuses : ReviewEntity(c, s)

Spec == Init /\ [][Next]_vars
=============================================================================
