SPECIFICATION NativeBackSpec
CONSTANTS
    MaxFrames = 3
    MaxDefers = 2
    MaxNesting = 4
INVARIANT
    RunsOwnTheirFrames
