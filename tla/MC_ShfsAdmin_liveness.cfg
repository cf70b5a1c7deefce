CONSTANTS
    NbBuckets = 1
    EntriesPerBucket = 2
    EntriesPerChunk = 1
    HtableRef = 2
    HtableBakRef = 4
    VolSize = 8
    ChunkSize = 2
    Allocator = "FIRST"
    MaxTokens = 2
    NoHash = NoHash
    BadHex = BadHex
    Files <- MC_FilesLive
    Faults <- MC_FaultsSignal

SPECIFICATION LiveSpec

PROPERTIES
    CommittedReachesDisk
