SPECIFICATION Spec
CONSTANTS
    text = text
    entries = entries
    buckets = buckets
    NoBlock = NoBlock
    HeapSize = 5
    Align = 1
    ClassCount = 3
    Owners = {text, entries, buckets}
    Growable = {entries, buckets}
    Ops = {"view", "grow", "shrink"}
    PermSizes = {1, 2}
    DefragTable = 99
    CompactTable = 1
INVARIANT
    LastResortPacks
