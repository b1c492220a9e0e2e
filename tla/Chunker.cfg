SPECIFICATION Spec
CONSTANTS
    MinTokens = 2
    ChunkTokens <- MCChunkTokens
    MaxLen = 40
INVARIANTS
    NothingIsLost
    SizesAreKept
    NeighboursOverlap
