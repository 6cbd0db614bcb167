CONSTANTS
    Hash <- MCHash
    Chunk <- MCChunk
    ZeroChunk <- MCZeroChunk
    zero_hash_depth = 6
    BYTES_PER_CHUNK = 2
    MaxCpu = 4
    Cores = {0, 1, 3, 4}
    MaxFaults = 2
    Requests <- MCObjects
SPECIFICATION Spec
INVARIANTS
    TypeOK
    BlocksOutliveWriters
    JoinedBeforeReturn
    ThreadBound
    HalvesCorrect
    IInv
PROPERTY
    ImplementsPromise
