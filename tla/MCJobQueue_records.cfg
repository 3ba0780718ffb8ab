SPECIFICATION HistorySpec
CONSTANTS
    s1 = s1
    s2 = s2
    b1 = b1
    b2 = b2
    m1 = m1
    m2 = m2
    o1 = o1
    o2 = o2
    None = None
    Servers <- TwoServers
    Jobs <- TwoBenchmarks
    Benchmarks <- TwoBenchmarks
    Outputs <- TwoOutputs
    MaxPending = 2
    FaultyDisk = FALSE
    LateCalls = FALSE
SYMMETRY ServerSymmetry
INVARIANTS
    ExecutingIsRunning
    DirectoriesExclusive
    StopSurvivesCrash
PROPERTIES
    TerminalStable
CHECK_DEADLOCK FALSE
