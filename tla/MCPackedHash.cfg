CONSTANTS
    Hash <- MCHash
    Chunk <- MCChunk
    ZeroChunk <- MCZeroChunk
    zero_hash_depth = 7
    BYTES_PER_CHUNK = 2
    MaxCpu = 8
    Cores = {8}
    MaxFaults = 1
    Requests <- MCPacked
SPECIFICATION Spec
INVARIANTS
    ThreadBound
    HalvesCorrect
PROPERTY
    ImplementsPromise
