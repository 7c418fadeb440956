CONSTANTS
    Entry <- MCEntry
    Genesis = "g"
    Prev <- MCPrev
    Height <- MCHeight
    Size <- MCSize
    MaxFileSize = 3
    MaxId = 6
    MaxCrashes = 1
    Prune = TRUE
    KeepBlocks = 1
    PruneAfter = 0
SPECIFICATION Spec
INVARIANTS
    TipUndoIsItsOwn
