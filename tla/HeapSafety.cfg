SPECIFICATION Spec
CONSTANTS
    Handle = {1, 2, 3}
    Sizes = {0, 8, 13, 300}
    Chunk = 16
    MaxHeap = 88
    SizeMod = 512
    Resets = 1
INVARIANTS HeapTiled FreeListExact Coalesced NoLeak PayloadIntact BlockFits FailsOnlyWhenFull
