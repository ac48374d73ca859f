SPECIFICATION Spec
CONSTANTS
    w1 = w1
    w2 = w2
    client = client
    Client = client
    Workers <- TwoWorkers
    NumBatches = 2
    MaxMsgs = 2
    MaxFaults <- AllFaults
    MaxTotal = 2
    FinalizeFrom <- Anytime
SYMMETRY Symmetry
VIEW View
INVARIANTS
    TypeOK
    SourceOutlivesWork
    SingleActiveWorker
PROPERTIES
    NoRestart
    CancellationSticks
    ReviewKept
CHECK_DEADLOCK FALSE
