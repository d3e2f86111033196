SPECIFICATION RunsSpec
CONSTANTS
    text = text
    entries = entries
    buckets = buckets
    NoBlock = NoBlock
    HeapSize = 5
    Align = 1
    ClassCount = 3
    Owners = {text, entries, buckets}
    Growable = {entries, buckets}
    Ops = {"view", "grow", "shrink"}
    PermSizes = {1, 2}
    DefragTable = 2
    CompactTable = 1
INVARIANTS
    TypeOK
    LiveDisjoint
    SpaceDisjoint
    ViewInsideSource
    OomIsReal
PROPERTY
    AllocationAnswers
