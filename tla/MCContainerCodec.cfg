CONSTANTS
    BYTES_PER_LENGTH_OFFSET = 2
    UINT32_VALUES = 9
    Shapes <- MCShapes
    Sizes = {0, 1, 2}
SPECIFICATION Spec
INVARIANTS
    TypeOK
    LayoutExact
    PassesMeet
    RoundTrip
