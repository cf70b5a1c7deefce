\* the BEST policy on a volume whose only one-chunk gap can be chunk vol_size:
\* a 3-entry bucket, no backup table, data chunks 3..6
CONSTANTS
    NbBuckets = 1
    EntriesPerBucket = 3
    EntriesPerChunk = 3
    HtableRef = 2
    HtableBakRef = 0
    VolSize = 6
    ChunkSize = 2
    Allocator = "BEST"
    MaxTokens = 3
    NoHash = NoHash
    BadHex = BadHex
    Files <- MC_FilesOneChunk
    Faults <- MC_FaultsNone

SPECIFICATION Spec

PROPERTIES
    AddFailsOnlyWithoutRoom
