SPECIFICATION Spec
CONSTANTS
    Good = Good
    Better = Better
    Broken = Broken
    Verbose = Verbose
    Panics = Panics
    Huge = Huge
    Scripts = {Good, Better, Broken, Verbose, Panics, Huge}
    LoadOutcome <- MCLoadOutcome
    Programs = {"acl", "sqlite", "firmware", "bundle"}
    Clients = {1, 2}
    Missing = Missing
    NoProgram = NoProgram
    MaxErrorLen = 7
    HostBuf = 7
    Cases = 3
    Width = 4
    LenWidth = 4
    RuneWidth = 3
    MaxStringScratch = 7
    Chars = {0, 1}
    WireElems = 4
    MaxWireDepth = 4
    HeapRoom = 8
    Values <- MCValues
INVARIANTS
    TypeOK
    FailsClosed
    ReasonIsOfThisCase
    LogStaysInBuffer
    WireRoundTrip
    ContainersArrive
CHECK_DEADLOCK FALSE
