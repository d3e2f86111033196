SPECIFICATION Spec
CONSTANTS
    MaxFrames = 2
    MaxDefers = 1
    MaxNesting = 3
INVARIANT
    RecoverAnswersOnlyPanics
