SPECIFICATION HashSpec
CONSTANTS
    text = text
    entries = entries
    buckets = buckets
    NoBlock = NoBlock
    HeapSize = 6
    Align = 1
    ClassCount = 3
    Owners = {text, entries, buckets}
    Growable = {entries, buckets}
    Ops = {}
    PermSizes = {}
    DefragTable = 99
    CompactTable = 99
INVARIANT
    LiveDisjoint
