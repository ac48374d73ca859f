------------------------- MODULE ImportPromotionReview -------------------------
(***************************************************************************)
(* ImportPromotion seen by a reviewer.                                     *)
(***************************************************************************)
EXTENDS ImportPromotion

ShownState == [c \in Cands |-> cand[c].state]

ShownStatus == [c \in Cands |-> entity[c].status]

Review == INSTANCE CandidateReview
            WITH Statuses <- EntityStatuses, cancelled <- run = "CANCELLED",
                 straggler <- ~NoFault("late"), state <- ShownState, status <- ShownStatus

(* Promotion looks atomic to a reviewer: although a worker reads the       *)
(* candidate and its entity long before it writes them, and workers whose  *)
(* leases ran out, replays, dead letters, cancellations and edits come in  *)
(* between, each promotion is a step that happens to a confirmed candidate *)
(* and to an entity that is not approved at that moment; a cancellation    *)
(* ends the staging and promotion of the run, unless a late checkpoint of  *)
(* its preprocessing stages a record in the cancelled run, which can be    *)
(* confirmed and promoted like any other                                   *)
(* (_process_import_queue, RowRepository.flush).                           *)
ImplementsReview == Review!Spec
===============================================================================
