\* a zero-byte file among the inputs (spec section 8)
CONSTANTS
    NbBuckets = 1
    EntriesPerBucket = 2
    EntriesPerChunk = 1
    HtableRef = 2
    HtableBakRef = 4
    VolSize = 8
    ChunkSize = 2
    Allocator = "FIRST"
    MaxTokens = 3
    NoHash = NoHash
    BadHex = BadHex
    Files <- MC_FilesZero
    Faults <- MC_FaultsNone

SPECIFICATION Spec

PROPERTIES
    AddFailsOnlyWithoutRoom
