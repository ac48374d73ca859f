SPECIFICATION FairSpec
CONSTANTS
    w1 = w1
    w2 = w2
    Workers <- TwoWorkers
    MaxMsgs = 2
    MaxFaults <- EachFault
    Requesters = {TRUE, FALSE}
INVARIANTS
    GoneInBoth
PROPERTIES
    CompletedIsFinal
    ConfirmedCompletes
CHECK_DEADLOCK FALSE
