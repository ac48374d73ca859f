SPECIFICATION FairSpec
CONSTANTS
    w1 = w1
    w2 = w2
    g1 = g1
    g2 = g2
    region = region
    subdivision = subdivision
    regionCode = regionCode
    Workers <- MCWorkers
    Geometries <- MCGeometries
    Fields <- MCFields
    Codes <- MCCodes
    Derived <- MCCodes
    Groups <- MCGroups
    Keepers <- MCKeepers
    MaxEdits = 2
    Faults <- FaultKinds
    MaxFaults = 1
    Birth = g1
INVARIANTS
    LocatedHere
    MissingIsAskedFor
PROPERTIES
    ManualKept
    RequestsSettle
CHECK_DEADLOCK FALSE
