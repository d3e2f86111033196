SPECIFICATION Spec
CONSTANTS
    MaxFrames = 3
    MaxDefers = 3
    MaxNesting = 4
INVARIANT
    RecoverStopsTheUnwind
