CONSTANTS
    BYTES_PER_LENGTH_OFFSET = 2
    UINT32_VALUES = 10
    MaxElements = 3
    Widths = {1, 2, 3}
    Sizes = {0, 1, 3}
    Bases = {0, 3}
    MaxMissing = 4
SPECIFICATION Spec
INVARIANTS
    VectorsRoundTrip
