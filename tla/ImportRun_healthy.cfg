SPECIFICATION FairSpec
CONSTANTS
    w1 = w1
    w2 = w2
    client = client
    Client = client
    Workers <- TwoWorkers
    NumBatches = 2
    MaxMsgs = 2
    MaxFaults <- Healthy
    MaxTotal = 2
    FinalizeFrom <- AfterReview
INVARIANTS
    ReviewableComplete
PROPERTIES
    ImplementsLifecycle
    WorkSettles
CHECK_DEADLOCK FALSE
