CONSTANTS
    Hash <- MCHash
    Chunk <- MCChunk
    ZeroChunk <- MCZeroChunk
    zero_hash_depth = 5
    BYTES_PER_CHUNK = 2
    MaxBytes = 18
    Limits = {0, 1, 2, 3, 4, 5, 7, 8, 9, 16}
SPECIFICATION Spec
INVARIANTS
    TypeOK
    BufferExact
    LayerCorrect
    IInv
PROPERTY
    ImplementsPromise
