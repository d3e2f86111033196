SPECIFICATION Spec
CONSTANTS
    text = text
    entries = entries
    buckets = buckets
    NoBlock = NoBlock
    HeapSize = 7
    Align = 1
    ClassCount = 2
    Owners = {text, entries, buckets}
    Growable = {entries, buckets}
    Ops = {"grow"}
    PermSizes = {2}
    DefragTable = 2
    CompactTable = 1
INVARIANT
    LiveDisjoint
