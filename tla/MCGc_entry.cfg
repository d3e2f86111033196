SPECIFICATION Spec
CONSTANTS
    o1 = o1
    o2 = o2
    o3 = o3
    Objs = {o1, o2}
    NTasks = 2
    Modes = {"entry"}
    MaxRefs = 3
    MaxSpawns = 1
SYMMETRY PoolSymmetry
INVARIANTS
    NoDanglingReference
