SPECIFICATION MCSpec
CONSTANTS
    e1 = e1
    e2 = e2
    e3 = e3
    e4 = e4
    None = None
    Universe <- FourElements
    Instances <- FourSets
    Plans <- SomePlans
    Widths = {1, 2}
    Omitted = Omitted
    Roots <- SomeRoots
    Shuffles <- SomeShuffles
    Swaps <- SomeSwaps
    Tolerance <- TwoPercent
    Configurations <- SomeConfigurations
INVARIANTS
    NothingLost
    ResultsAccepted
    ClaimsHold
    PreflightPromises
    CertificatesTrue
    ScansIsolated
PROPERTIES
    ImplementsGreedy
    SolversEnd
CHECK_DEADLOCK FALSE
