SPECIFICATION Spec
CONSTANTS
    Side = 8
    Square = 4
    Locator = 2
    Pad = 1
    Sizes = {1, 2, 5}
    MaxFeatures = 3
    MaxBytes = 4
    MaxLength = 6
    i1 = i1
    i2 = i2
    i3 = i3
    Runs <- MCRuns
    BatchSize = 2
    MaxFailures = 2
    c1 = c1
    c2 = c2
    c3 = c3
    Creators <- MCCreators
    MaxOpened = 5
    MaxMishaps = 1
INVARIANTS
    SquaresAreTouched
    BatchesAreCut
    MultipartsAreOwned
PROPERTIES
    ConversionsStay
    PurgedWhole
    SweepsDrain
CHECK_DEADLOCK FALSE
