SPECIFICATION Spec
CONSTANTS
    w1 = w1
    w2 = w2
    client = client
    Client = client
    Workers <- TwoWorkers
    NumBatches = 2
    MaxMsgs = 2
    MaxFaults <- NoFaults
    MaxTotal = 0
    FinalizeFrom <- Anytime
SYMMETRY Symmetry
INVARIANT CancelledHasNoCandidates
CHECK_DEADLOCK FALSE
