SPECIFICATION FairSpec
CONSTANTS
    w1 = w1
    w2 = w2
    Workers <- TwoWorkers
    MaxMsgs = 1
    MaxFaults <- OnlyPromote
    Requesters = {FALSE}
PROPERTY RetryFinishes
CHECK_DEADLOCK FALSE
