SPECIFICATION FairSpec
CONSTANTS
    c1 = c1
    c2 = c2
    w1 = w1
    w2 = w2
    Workers <- MCWorkers
    Cands <- TwoCands
    MaxQueues = 2
    MaxEdits = 1
    MaxFaults <- OnlyCrash
    MaxTotal = 1
    InitialEntities = {"CANDIDATE"}
INVARIANTS
    CompletedAsAsked
PROPERTIES
    ApprovedUntouched
    QueuesEnd
CHECK_DEADLOCK FALSE
