SPECIFICATION GuidedSpec
CONSTANTS
    Tools <- EveryTool
    Projects <- SomeProjects
INVARIANTS
    MeantIsBuilt
    RaisesAreKnown
    UrgentProposed
    PathsRun
PROPERTIES
    ExampleHeals
