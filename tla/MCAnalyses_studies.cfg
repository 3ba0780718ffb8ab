SPECIFICATION MCSpec
CONSTANTS
    c1 = c1
    c2 = c2
    u1 = u1
    u2 = u2
    m1 = m1
    m2 = m2
    None = None
    Slots <- TwoSlots
    Graphs <- TwoGraphs
    Quotas = {1, 2}
    Limit = 2
    MaxCommands = 3
    MaxTime = 2
    Absent = Absent
    Precision = 9
    Decimals = 2
    SummaryDecimals = 1
    CoverageDecimals = 0
    Instances = {u1, u2, m1, m2}
    Of <- FourInstances
    Algorithms = {"g", "l", "r", "f", "b", "e"}
    Variant <- SixVariants
    Measures = {"sets"}
    Outcomes <- ManyOutcomes
SYMMETRY SlotSymmetry
INVARIANTS
    LiveNeverRecovered
    ChargedOnceInFull
    WithinBudget
    TablesVerified
    HonestBenchmarksFinish
    NoFalseOptimum
    TablesAgree
CHECK_DEADLOCK FALSE
