SPECIFICATION FairSpec
CONSTANTS
    s1 = s1
    s2 = s2
    f1 = f1
    f2 = f2
    k1 = k1
    b1 = b1
    b2 = b2
    None = None
    Scopes <- MCScopes
    c1 = c1
    c2 = c2
    NumRows = 3
    Existing <- Entities
    Versioned <- Entities
    Categories <- MCCategories
    CategoriesOf <- Crosswise
    Fields <- MCFields
    Keys <- OneKey
    Bodies <- MCBodies
    MaxStarts = 2
    MaxEdits = 1
    Edits <- MCEdits
    MaxSeen = 2
INVARIANTS
    RequestReadsHold
    OneOutcome
    FlushesNeverDeadlock
PROPERTIES
    NoLostUpdate
    ScopesEnd
CHECK_DEADLOCK FALSE
