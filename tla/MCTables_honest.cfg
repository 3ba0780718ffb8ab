SPECIFICATION TablesSpec
CONSTANTS
    Absent = Absent
    Precision = 11
    Decimals = 2
    SummaryDecimals = 1
    CoverageDecimals = 0
    Instances = {1, 2, 3, 4}
    Of <- TwoScans
    Algorithms = {"g", "l", "r", "s", "f"}
    Variant <- FiveVariants
    Measures = {"sets"}
    Outcomes <- OneOutcome
INVARIANTS
    HonestTablesAccepted
CHECK_DEADLOCK FALSE
