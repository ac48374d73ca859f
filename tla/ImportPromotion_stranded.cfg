SPECIFICATION Spec
CONSTANTS
    c1 = c1
    c2 = c2
    w1 = w1
    w2 = w2
    Workers <- MCWorkers
    Cands <- TwoCands
    MaxQueues = 2
    MaxEdits = 0
    MaxFaults <- OnlyDead
    MaxTotal = 1
    InitialEntities = {"absent", "CANDIDATE"}
SYMMETRY Symmetry
INVARIANTS
    RefusedIsQueued
CHECK_DEADLOCK FALSE
