SPECIFICATION Spec
CONSTANTS
    text = text
    entries = entries
    buckets = buckets
    NoBlock = NoBlock
    HeapSize = 16
    Align = 1
    ClassCount = 3
    Owners = {text, entries}
    Growable = {entries}
    Ops = {"grow"}
    PermSizes = {6}
    DefragTable = 99
    CompactTable = 99
INVARIANT
    CompactionReclaimsAll
