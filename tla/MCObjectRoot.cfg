CONSTANTS
    Hash <- MCHash
    Value <- MCValue
    Bits <- MCBits
    Length <- MCLength
    ZeroChunk <- MCZeroChunk
    Garbage <- MCGarbage
    zero_hash_depth = 5
    CHAR_BIT = 2
    BYTES_PER_CHUNK = 2
    MaxCpu = 3
    Cores = {0, 1, 3}
    MaxFaults = 2
    MaxDepth = 3
    MaxWidth = 4
    Objects <- MCObjects
SPECIFICATION Spec
INVARIANTS
    TypeOK
    IInv
    LimitsRespected
    NestedThreadBound
    NothingLeftBelow
PROPERTY
    ImplementsPromise
