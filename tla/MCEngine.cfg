SPECIFICATION Spec
CONSTANTS
    Threads = {t1, t2}
    MaxEngines = 2
    MaxDepth = 2
    None = None
SYMMETRY Symmetry
INVARIANTS
    TypeOK
    SlotHandedOutOnce
    ScriptSeesItsEngine
    OwnOutputReachesCallback
PROPERTIES
    SuspendedProgramSurvives
