SPECIFICATION CarefulSpec
CONSTANTS
    o1 = o1
    o2 = o2
    o3 = o3
    Objs = {o1, o2}
    NTasks = 3
    Modes = {"call", "entry"}
    MaxRefs = 3
    MaxSpawns = 2
INVARIANTS
    NoDanglingReference
    Tricolor
    WorklistFits
PROPERTIES
    SweepIsExact
    CollectionEnds
