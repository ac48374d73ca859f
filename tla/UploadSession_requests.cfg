SPECIFICATION FairSpec
CONSTANTS
    r1 = r1
    r2 = r2
    Requests <- TwoRequests
    NumParts = 2
    PartSizes = {1, 2}
    ExpectedSize = 2
    MaxUploads = 2
INVARIANTS
    TypeOK
    CompletedHasRun
    AssembledWhole
    GivenUpHasNoRun
    RunHasSource
PROPERTY SessionsEnd
CHECK_DEADLOCK FALSE
