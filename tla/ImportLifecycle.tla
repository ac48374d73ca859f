---------------------------- MODULE ImportLifecycle ----------------------------
(***************************************************************************)
(* What an import promises to the administrator who requested it: its      *)
(* records come up for review all together or not at all, and once they    *)
(* are up nobody but an administrator changes them.  Workers, leases,      *)
(* messages and replays do not appear; ImportRun implements this (see      *)
(* ImportRunLifecycle).                                                    *)
(***************************************************************************)
CONSTANT Records     \* the source's records, by ordinal

VARIABLES
    state,           \* what the run's status means to the administrator
    shown,           \* records staged for review
    dropped          \* records an administrator has rejected

life == <<state, shown, dropped>>

LifeInit == state = "working" /\ shown = {} /\ dropped = {}

\* Records are staged while the run is worked on, or after a cancellation
\* that the worker has not noticed yet.
Stage ==
    /\ state \in {"working", "cancelling", "cancelled"}
    /\ \E r \in Records : shown' = shown \cup {r}
    /\ UNCHANGED <<state, dropped>>

\* A run is offered for review with every record it has not lost to review.
Offer ==
    /\ state = "working" /\ shown \cup dropped = Records
    /\ state' = "offered"
    /\ UNCHANGED <<shown, dropped>>

Fail ==
    /\ state = "working"
    /\ state' = "failed"
    /\ UNCHANGED <<shown, dropped>>

RequestCancellation ==
    /\ state = "working"
    /\ state' = "cancelling"
    /\ UNCHANGED <<shown, dropped>>

\* A run that nobody works on is cancelled at once, any other when it stops.
CancelRun ==
    /\ state \in {"working", "cancelling"}
    /\ state' = "cancelled" /\ shown' = {}
    /\ UNCHANGED dropped

Finalize ==
    /\ state \in {"offered", "failed"}
    /\ state' = "finalized" /\ shown' = {}
    /\ UNCHANGED dropped

RejectRecord ==
    /\ \E r \in shown : shown' = shown \ {r} /\ dropped' = dropped \cup {r}
    /\ UNCHANGED state

LifeNext ==
    \/ Stage \/ Offer \/ Fail \/ RequestCancellation \/ CancelRun
    \/ Finalize \/ RejectRecord

LifeSpec == LifeInit /\ [][LifeNext]_life
=============================================================================
