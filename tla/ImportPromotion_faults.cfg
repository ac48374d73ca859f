SPECIFICATION Spec
CONSTANTS
    c1 = c1
    c2 = c2
    w1 = w1
    w2 = w2
    Workers <- MCWorkers
    Cands <- OneCand
    MaxQueues = 2
    MaxEdits = 1
    MaxFaults <- EachFault
    MaxTotal = 2
    InitialEntities = {"absent"}
SYMMETRY WorkerSymmetry
INVARIANTS
    TypeOK
    PromotedOnce
PROPERTIES
    CompletedIsFinal
    ImplementsReview
CHECK_DEADLOCK FALSE
