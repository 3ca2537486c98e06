SPECIFICATION Spec
CONSTANTS
    d1 = d1 d2 = d2 k1 = k1 l1 = l1 l2 = l2 m1 = m1
    Idle = Idle NoKey = NoKey Seed = Seed
    Docs <- TwoDocs
    Loaded <- OldDocs
    SeedOf <- Seeds
    Carriers <- Preserved
    Keys <- OneKey
    MaxChunks <- Sizes
    OldChunks = 3
    Blank <- NoBlank
    ImageIds <- OneImage
    MaxCaption = 2
    Batch = 2
    Loaders <- TwoLoaders
    Shifts <- AllShifts
    MaxMoves = 3
SYMMETRY Alike
CHECK_DEADLOCK FALSE
INVARIANTS VisibleIsCurrent IngestedIsIndexed FactsAreAnchored MigrationIsComplete
