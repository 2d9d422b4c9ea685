SPECIFICATION Spec
CONSTANTS
    Plans <- EveryPlan
    Retries = 2
INVARIANTS
    VerdictIsTrue
    PrerequisiteRan
PROPERTIES
    PlanEnds
CHECK_DEADLOCK FALSE
