SPECIFICATION Spec
CONSTANTS
    MaxFrames = 3
    MaxDefers = 2
    MaxNesting = 5
INVARIANTS
    TypeOK
    PanicFlagIsExact
    DefersBelongToFrames
    RunsOwnTheirFrames
PROPERTY
    NestedRunIsContained
