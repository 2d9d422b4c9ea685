SPECIFICATION TeamSpec
CONSTANTS
    Audits <- AllAudits
    Start <- AllStarts
    MinLevels = {1, 3}
    MaxFindings = {2}
    Paths <- NoneOrOne
    LineCounts = {1000}
    EnvSecrets = {}
    MaxEdits = 2
INVARIANTS
    WorstAlwaysCounts
PROPERTIES
    HintsConverge
    HintsNeverCostMore
    MoreIsNeverBetter
CHECK_DEADLOCK FALSE
