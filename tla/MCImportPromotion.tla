-------------------------- MODULE MCImportPromotion --------------------------
(* Small instances of ImportPromotion: the faults that may happen, by name. *)
EXTENDS ImportPromotionReview, TLC

CONSTANTS c1, c2, w1, w2

OneCand   == {c1}
TwoCands  == {c1, c2}
MCWorkers == {w1, w2}

WorkerSymmetry == Permutations(MCWorkers)
Symmetry       == Permutations(MCWorkers) \cup Permutations(TwoCands)

NoFaults   == [k \in FaultKinds |-> 0]
EachFault  == [k \in FaultKinds |-> 1]
OnlyCrash  == [NoFaults EXCEPT !["crash"] = 1]
OnlyDead   == [NoFaults EXCEPT !["dead"] = 1]
=============================================================================
